---- MODULE Spec2Model ----
(***************************************************************************)
(* Command validation, command execution and detection cache of the        *)
(* ai_detection services (server/services/ai_detection).                   *)
(*                                                                         *)
(* Strings that the code inspects character by character (commands, file  *)
(* paths, working directories) are sequences of one-character strings.    *)
(* The specifications:                                                    *)
(*   SpecV  CommandValidator.validate_command applied to bounded inputs    *)
(*   Spec   CommandExecutionService / CommandExecutor: concurrent          *)
(*          execute_command calls, the running-process registry, the       *)
(*          history, the detection cache and cancel_running_processes      *)
(*   SpecL  Spec with detection probes that may never return, under the   *)
(*          fairness of the event loop                                     *)
(*   SpecE  Spec with AgentDetectionService.execute_command as a third     *)
(*          execution entry point                                          *)
(*   SpecH  CommandExecutor.get_execution_history and                      *)
(*          CommandExecutionService.initialize applied to bounded          *)
(*          histories and limits                                           *)
(*   SpecD  AgentDetectionService: concurrent detect_tools,                *)
(*          get_tool_status and clear_cache calls, the lock, the clock     *)
(*   SpecS  the detection strategies: detect() and get_version() applied   *)
(*          to bounded outcomes of the probes they run                     *)
(*   SpecA  the tool identifiers of the API routes list_tools and          *)
(*          detect_tools applied to bounded lists of strings               *)
(*   SpecR  the API routes GET /history and POST /clear-cache applied to   *)
(*          bounded histories and detection caches                         *)
(***************************************************************************)
EXTENDS Integers, Sequences, FiniteSets, TLC

VARIABLES
    valreq,     \* SpecV: the arguments of validate_command and the process cwd
    valres,     \* SpecV: <<>>, then <<the dict validate_command returned>>
    calls,      \* per execute_command call: position, request, locals, result
    registry,   \* CommandExecutor._running_processes, in dict entry order
    history,    \* CommandExecutor._execution_history
    initialized,\* CommandExecutionService._is_initialized
    cache,      \* AgentDetectionService._cache
    cache_timestamp, \* AgentDetectionService._cache_timestamp
    now,        \* the clock (datetime.now()), in minutes
    cancels,    \* per cancel_all_executions call: what it returned
    histres,    \* SpecH: <<>>, then <<limit and list get_execution_history returned>>
    inits,      \* the number of CommandExecutionService.initialize() calls made
    stratreq,   \* SpecS: the tool and what the probes of its strategy meet
    stratres,   \* SpecS: <<>>, then <<what detect() or get_version() did>>
    apireq,     \* SpecA: the route and the tool strings of the request
    apires,     \* SpecA: <<>>, then <<the tools handed to detect_tools>>
    routeres,   \* SpecR: <<>>, then <<what the API route did and returned>>
    cache_keys, \* the keys of AgentDetectionService._cache, in dict entry order
    lock,       \* AgentDetectionService._lock: <<>>, or <<the call that holds it>>
    waiters,    \* the calls suspended in _lock.acquire(), first come first
    dcalls      \* per call of the detection service: position, request, locals, result

vars == <<valreq, valres, calls, registry, history, initialized,
          cache, cache_timestamp, now, cancels, histres, cache_keys, lock,
          waiters, dcalls, inits, stratreq, stratres, apireq, apires, routeres>>

(***************************************************************************)
(* Characters and strings                                                  *)
(***************************************************************************)
UpperChars == <<"A", "B", "C", "D", "E", "F", "G", "H", "I", "J", "K", "L", "M",
                "N", "O", "P", "Q", "R", "S", "T", "U", "V", "W", "X", "Y", "Z">>
LowerChars == <<"a", "b", "c", "d", "e", "f", "g", "h", "i", "j", "k", "l", "m",
                "n", "o", "p", "q", "r", "s", "t", "u", "v", "w", "x", "y", "z">>
DigitChars == <<"0", "1", "2", "3", "4", "5", "6", "7", "8", "9">>

Range(s) == {s[i] : i \in DOMAIN s}

UpperSet == Range(UpperChars)
LowerOf == [c \in UpperSet |-> LowerChars[CHOOSE i \in DOMAIN UpperChars : UpperChars[i] = c]]

\* str.lower() of one character
LowerChar(c) == IF c \in UpperSet THEN LowerOf[c] ELSE c

\* str.lower()
Lower(s) == [i \in 1..Len(s) |-> LowerChar(s[i])]

\* regex \s (the commands of the model hold the blank as only whitespace)
IsSpace(c) == c = " "

\* regex ['"]
IsQuote(c) == c = "\"" \/ c = "'"

WordChars == Range(UpperChars) \cup Range(LowerChars) \cup Range(DigitChars) \cup {"_"}

\* regex \w
IsWord(c) == c \in WordChars

MinOf(S) == CHOOSE x \in S : \A y \in S : x <= y
MaxOf(S) == CHOOSE x \in S : \A y \in S : x >= y

\* str.strip()
Strip(s) ==
    LET keep == {i \in 1..Len(s) : ~IsSpace(s[i])}
    IN  IF keep = {} THEN <<>> ELSE SubSeq(s, MinOf(keep), MaxOf(keep))

\* f in s (substring test)
Contains(s, f) ==
    \E i \in 1..(Len(s) - Len(f) + 1) : \A k \in 1..Len(f) : s[i + k - 1] = f[k]

\* s.startswith(p)
StartsWith(s, p) == Len(p) <= Len(s) /\ \A k \in 1..Len(p) : s[k] = p[k]

\* s.count(c)
Count(s, c) == Cardinality({i \in 1..Len(s) : s[i] = c})

\* sep.join(items): the items' texts with the separator between them
RECURSIVE Join(_, _)
Join(items, sep) ==
    IF Len(items) = 0 THEN <<>>
    ELSE IF Len(items) = 1 THEN items[1]
    ELSE items[1] \o <<sep>> \o Join(Tail(items), sep)

(***************************************************************************)
(* CommandValidator                                                        *)
(***************************************************************************)
\* BLOCKED_COMMANDS is a set in the code: the loop of lines 82-84 visits its
\* members in an order that varies from one server process to the next. The
\* model visits them in the order they are written in; which errors the loop
\* adds does not depend on the order.
BLOCKED_COMMANDS ==
    << <<"r", "m", " ", "-", "r", "f", " ", "/">>,
       <<"r", "m", " ", "-", "r", "f", " ", "/", "*">>,
       <<"s", "u", "d", "o", " ", "r", "m", " ", "-", "r", "f">>,
       <<"m", "k", "f", "s">>,
       <<"d", "d", " ", "i", "f", "=", "/">>,
       <<"w", "g", "e", "t">>,
       <<"c", "u", "r", "l">>,
       <<"a", "p", "t", "-", "g", "e", "t">>,
       <<"y", "u", "m">>,
       <<"b", "r", "e", "w">>,
       <<"n", "p", "m", " ", "i", "n", "s", "t", "a", "l", "l">>,
       <<"c", "h", "m", "o", "d", " ", "7", "7", "7">>,
       <<"c", "h", "o", "w", "n">>,
       <<"u", "s", "e", "r", "a", "d", "d">>,
       <<"u", "s", "e", "r", "d", "e", "l">>,
       <<"p", "a", "s", "s", "w", "d">>,
       <<"d", "o", "c", "k", "e", "r">>,
       <<"k", "u", "b", "e", "c", "t", "l">>,
       <<"g", "i", "t", " ", "c", "l", "o", "n", "e">>,
       <<"s", "c", "p">>,
       <<"s", "s", "h">> >>

\* The regular expressions of BLOCKED_PATTERNS, in list order. kind "lit": the
\* expression matches exactly the text a; kind "empty_alt": r'||' is an
\* alternation of three empty expressions, which matches at position 0 of every
\* string; kind "a_then_a": a, any characters, a again. The backquote
\* character is written "backquote".
BLOCKED_PATTERNS ==
    << [text |-> "> /dev/null", kind |-> "lit",
        a |-> <<">", " ", "/", "d", "e", "v", "/", "n", "u", "l", "l">>],
       [text |-> ">&",       kind |-> "lit", a |-> <<">", "&">>],
       [text |-> "2>&1",     kind |-> "lit", a |-> <<"2", ">", "&", "1">>],
       [text |-> "\\.\\./",  kind |-> "lit", a |-> <<".", ".", "/">>],
       [text |-> "~/",       kind |-> "lit", a |-> <<"~", "/">>],
       [text |-> "\\$\\(",   kind |-> "lit", a |-> <<"$", "(">>],
       [text |-> "\\${",     kind |-> "lit", a |-> <<"$", "{">>],
       [text |-> "backquote", kind |-> "lit", a |-> <<"backquote">>],
       [text |-> "&&",       kind |-> "lit", a |-> <<"&", "&">>],
       [text |-> "||",       kind |-> "empty_alt", a |-> <<>>],
       [text |-> ";",        kind |-> "lit", a |-> <<";">>],
       [text |-> "&&.*&&",   kind |-> "a_then_a", a |-> <<"&", "&">>],
       [text |-> "\\|\\|.*\\|\\|", kind |-> "a_then_a", a |-> <<"|", "|">>] >>

ALLOWED_EXTENSIONS ==
    { <<".", "m", "d">>,
      <<".", "t", "x", "t">>,
      <<".", "p", "y">>,
      <<".", "j", "s">>,
      <<".", "t", "s">>,
      <<".", "j", "s", "o", "n">>,
      <<".", "y", "a", "m", "l">>,
      <<".", "y", "m", "l">>,
      <<".", "h", "t", "m", "l">>,
      <<".", "c", "s", "s">>,
      <<".", "s", "q", "l">>,
      <<".", "s", "h">>,
      <<".", "p", "s", "1">>,
      <<".", "b", "a", "t">>,
      <<".", "e", "n", "v">> }

MAX_COMMAND_LENGTH == 1000

\* blocked.lower() for each blocked command
BlockedLower == [i \in DOMAIN BLOCKED_COMMANDS |-> Lower(BLOCKED_COMMANDS[i])]

\* The positions at which the text a occurs in s
Occurrences(s, a) ==
    {i \in 1..(Len(s) - Len(a) + 1) : \A k \in 1..Len(a) : s[i + k - 1] = a[k]}

\* re.search(pattern, s)
ReSearch(p, s) ==
    CASE p.kind = "lit" -> Contains(s, p.a)
      [] p.kind = "empty_alt" -> TRUE
      [] p.kind = "a_then_a" ->
            LET occ == Occurrences(s, p.a)
            IN  occ # {} /\ MaxOf(occ) >= MinOf(occ) + Len(p.a)

\* re.findall(r'[\'"](.*?)[\'"]', s) from position pos on: the text between a
\* quote character and the next quote character, the scan resuming after it.
RECURSIVE QuotedMatches(_, _)
QuotedMatches(s, pos) ==
    LET opens == {i \in pos..Len(s) : IsQuote(s[i])}
    IN  IF opens = {} THEN <<>>
        ELSE LET i == MinOf(opens)
                 closes == {j \in (i + 1)..Len(s) : IsQuote(s[j])}
             IN  IF closes = {} THEN <<>>
                 ELSE LET j == MinOf(closes)
                      IN  <<SubSeq(s, i + 1, j - 1)>> \o QuotedMatches(s, j + 1)

\* The end of the text [^'"\s]+\.\w+ matches from position g when (?:\s|$)
\* follows it, or 0 when there is no such match: the run of non-blank
\* characters from g must hold no quote and end in a dot followed by word
\* characters, with at least one character before that dot.
TokenEnd(s, g) ==
    IF g > Len(s) \/ IsSpace(s[g]) THEN 0
    ELSE LET stops == {i \in g..Len(s) : IsSpace(s[i])}
             e == IF stops = {} THEN Len(s) ELSE MinOf(stops) - 1
             dots == {d \in g..e : s[d] = "."}
         IN  IF \E i \in g..e : IsQuote(s[i]) THEN 0
             ELSE IF dots = {} THEN 0
             ELSE LET d == MaxOf(dots)
                  IN  IF d > g /\ d < e /\ \A i \in (d + 1)..e : IsWord(s[i])
                      THEN e ELSE 0

\* Where the group of (?:\s|^)([^'"\s]+\.\w+)(?:\s|$) starts when the
\* expression matches at position p, or 0: \s is tried first, then ^.
GroupStart(s, p) ==
    IF IsSpace(s[p]) /\ TokenEnd(s, p + 1) # 0 THEN p + 1
    ELSE IF p = 1 /\ TokenEnd(s, 1) # 0 THEN 1
    ELSE 0

\* re.findall(r'(?:\s|^)([^\'"\s]+\.\w+)(?:\s|$)', s) from position pos on. A
\* match consumes the blank that ends it, so that blank cannot open the next match.
RECURSIVE UnquotedMatches(_, _)
UnquotedMatches(s, pos) ==
    LET starts == {p \in pos..Len(s) : GroupStart(s, p) # 0}
    IN  IF starts = {} THEN <<>>
        ELSE LET g == GroupStart(s, MinOf(starts))
                 e == TokenEnd(s, g)
                 next == IF e < Len(s) THEN e + 2 ELSE e + 1
             IN  <<SubSeq(s, g, e)>> \o UnquotedMatches(s, next)

\* The components of a path: the text between slashes, empty components and
\* "." dropped (pathlib's parsing).
RECURSIVE SplitPath(_)
SplitPath(s) ==
    IF s = <<>> THEN <<>>
    ELSE LET slashes == {i \in 1..Len(s) : s[i] = "/"}
             cut == IF slashes = {} THEN Len(s) + 1 ELSE MinOf(slashes)
             first == SubSeq(s, 1, cut - 1)
             rest == IF cut >= Len(s) THEN <<>> ELSE SubSeq(s, cut + 1, Len(s))
         IN  (IF first = <<>> \/ first = <<".">> THEN <<>> ELSE <<first>>)
                \o SplitPath(rest)

IsAbsolute(s) == s # <<>> /\ s[1] = "/"

\* ".." removed together with the component before it; ".." at the root stays
\* at the root (os.path.realpath on a file system without symbolic links).
RECURSIVE Normalize(_, _)
Normalize(done, todo) ==
    IF todo = <<>> THEN done
    ELSE IF Head(todo) = <<".", ".">>
         THEN Normalize(IF done = <<>> THEN <<>> ELSE SubSeq(done, 1, Len(done) - 1),
                        Tail(todo))
         ELSE Normalize(Append(done, Head(todo)), Tail(todo))

\* str() of an absolute path given by its components
RECURSIVE PathText(_)
PathText(comps) ==
    IF comps = <<>> THEN <<>> ELSE <<"/">> \o Head(comps) \o PathText(Tail(comps))

\* Path(p).resolve(): a relative path is taken from the process's current
\* directory cwd; the result is the components of the absolute path.
ResolveComponents(p, cwd) ==
    Normalize(<<>>, (IF IsAbsolute(p) THEN <<>> ELSE SplitPath(cwd)) \o SplitPath(p))

\* str(Path(p).resolve())
Resolve(p, cwd) ==
    LET c == ResolveComponents(p, cwd) IN IF c = <<>> THEN <<"/">> ELSE PathText(c)

\* Path(p).suffix
Suffix(p) ==
    LET comps == SplitPath(p)
        name == IF comps = <<>> THEN <<>> ELSE comps[Len(comps)]
        dots == {i \in 1..Len(name) : name[i] = "."}
    IN  IF dots = {} THEN <<>>
        ELSE LET i == MaxOf(dots)
             IN  IF 1 < i /\ i < Len(name) THEN SubSeq(name, i, Len(name)) ELSE <<>>

\* The paths _validate_file_paths examines: the matches of the first pattern,
\* then those of the second.
ExtractedPaths(command) == QuotedMatches(command, 1) \o UnquotedMatches(command, 1)

\* The two checks of the loop body for one path: "escape" when the resolved
\* text does not start with the text of the resolved working directory;
\* "NameError" when the extension is not an allowed one, because the body then
\* evaluates warnings.append(...) and the classmethod has no name warnings.
PathCheck(file_path, working_directory, cwd) ==
    IF ~StartsWith(Resolve(file_path, cwd), Resolve(working_directory, cwd))
    THEN "escape"
    ELSE IF Lower(Suffix(file_path)) \notin ALLOWED_EXTENSIONS
    THEN "NameError"
    ELSE "ok"

\* CommandValidator._validate_file_paths: False at the first escaping path and,
\* through `except Exception`, at the first NameError.
validate_file_paths(command, working_directory, cwd) ==
    LET paths == ExtractedPaths(command)
    IN  \A i \in 1..Len(paths) : PathCheck(paths[i], working_directory, cwd) = "ok"

SelectIdx(n, Keep(_)) ==
    LET RECURSIVE Sel(_)
        Sel(i) == IF i > n THEN <<>>
                  ELSE (IF Keep(i) THEN <<i>> ELSE <<>>) \o Sel(i + 1)
    IN  Sel(1)

\* `not command or not command.strip()`
is_blank_no_strip(command) == command = <<>>
is_blank(command) == command = <<>> \/ Strip(command) = <<>>

\* normalized_command = command.lower().strip()
normalized_no_lower(command) == Strip(command)
normalized(command) == Strip(Lower(command))

\* validate_command, lines 102-106: the dict returned (valid is
\* `len(errors) == 0`)
validation_result_strict(errors, warnings) ==
    [valid |-> Len(errors) = 0 /\ Len(warnings) = 0, errors |-> errors,
     warnings |-> warnings]
validation_result(errors, warnings) ==
    [valid |-> Len(errors) = 0, errors |-> errors, warnings |-> warnings]

\* CommandValidator.validate_command. working_directory <<>> stands for None
\* and for "", which the code treats alike (`if working_directory:`).
validate_command(command, working_directory, cwd) ==
    IF is_blank(command)
    THEN [valid |-> FALSE, errors |-> << <<"Command cannot be empty">> >>,
          warnings |-> <<>>]
    ELSE
    LET normalized_command == normalized(command)
        tooLong == IF Len(command) > MAX_COMMAND_LENGTH
                   THEN << <<"Command too long (max ", ToString(MAX_COMMAND_LENGTH),
                              " characters)">> >>
                   ELSE <<>>
        hit(i) == Contains(normalized_command, BlockedLower[i])
        blockedIdx == SelectIdx(Len(BLOCKED_COMMANDS), hit)
        blocked == [k \in 1..Len(blockedIdx) |->
                       <<"Blocked command detected: ">> \o BLOCKED_COMMANDS[blockedIdx[k]]]
        pat(i) == ReSearch(BLOCKED_PATTERNS[i], normalized_command)
        patIdx == SelectIdx(Len(BLOCKED_PATTERNS), pat)
        dangerous == [k \in 1..Len(patIdx) |->
                       <<"Potentially dangerous pattern: ", BLOCKED_PATTERNS[patIdx[k]].text>>]
        unsafe == IF working_directory # <<>>
                     /\ ~validate_file_paths(command, working_directory, cwd)
                  THEN << <<"Unsafe file operations detected">> >>
                  ELSE <<>>
        quote_counts == Count(command, "\"") + Count(command, "'")
        unmatched == IF quote_counts % 2 # 0
                     THEN << <<"Unmatched quotes detected - may cause parsing issues">> >>
                     ELSE <<>>
    IN  validation_result(tooLong \o blocked \o unsafe, dangerous \o unmatched)

(***************************************************************************)
(* AgentDetectionService: the cache get_tool_status reads and writes        *)
(***************************************************************************)
ToolTypes == {"claude_code", "gemini_cli", "qwen_code"}

\* self._cache_ttl, in minutes
CACHE_TTL == 5

\* AgentDetectionService.__init__; an absent cache entry is <<>>
EmptyCache == [t \in ToolTypes |-> <<>>]

\* self._cache[key] = tool on the key order of the dict: a new key goes to the
\* end, a key already present keeps its place
StoreKey(keys, key) ==
    IF \E i \in DOMAIN keys : keys[i] = key THEN keys ELSE Append(keys, key)

\* _is_cache_valid with a cache that expires a minute early
is_cache_valid_early ==
    /\ cache_timestamp # <<>>
    /\ \E t \in ToolTypes : cache[t] # <<>>
    /\ now - cache_timestamp[1] < CACHE_TTL - 1

\* _is_cache_valid with `<=` for `<`
is_cache_valid_inclusive ==
    /\ cache_timestamp # <<>>
    /\ \E t \in ToolTypes : cache[t] # <<>>
    /\ now - cache_timestamp[1] <= CACHE_TTL

\* AgentDetectionService._is_cache_valid
is_cache_valid ==
    /\ cache_timestamp # <<>>
    /\ \E t \in ToolTypes : cache[t] # <<>>
    /\ now - cache_timestamp[1] < CACHE_TTL

(***************************************************************************)
(* CommandExecutor and CommandExecutionService                             *)
(***************************************************************************)
MaxCalls == 2
MaxCancels == 2

\* ExecuteRequest.timeout_seconds (its default)
DEFAULT_TIMEOUT_SECONDS == 30

\* CommandExecutor._max_history_size
MAX_HISTORY_SIZE == 100

\* The directory the server process runs in.
ServerCwd == <<"/", "w">>

\* The execution requests of Spec: ExecuteRequest(tool_type, command,
\* working_directory), timeout_seconds left at its default. `runs` is not a
\* field of the request: it says what the tool's process does when it is run
\* on this command, "exits" (by itself, before the timeout) or "hangs" (runs
\* past the timeout).
Request(tool, command, working_directory, runs) ==
    [tool |-> tool, command |-> command, working_directory |-> working_directory,
     runs |-> runs]
ExecRequests ==
    { Request("claude_code", <<"s", "s", "h">>, <<>>, "hangs"),
      Request("claude_code", <<"l", "s">>, <<>>, "exits"),
      Request("claude_code", <<"l", "s", ";", "\"">>, <<>>, "hangs"),
      Request("gemini_cli", <<"l", "s">>, ServerCwd, "hangs"),
      Request("gemini_cli", <<"b", ".", "x", "y", "z">>, ServerCwd, "exits") }

\* ExecuteResponse (execution_time_ms left out); an absent text is <<>>
Response(success, stdout, stderr, return_code, error_message) ==
    [success |-> success, stdout |-> stdout, stderr |-> stderr,
     return_code |-> return_code, error_message |-> error_message]

\* execute_command, lines 174-180
ValidationFailedResponse(v) ==
    Response(FALSE, <<>>, Join(v.errors, "\n"), -1,
             <<"Command validation failed: ">> \o Join(v.errors, "; "))

\* execute_command, lines 188-193
NotAvailableResponse(tool) ==
    Response(FALSE, <<>>, <<>>, -1, <<"Tool ", tool, " is not available">>)

\* execute_command, lines 254-259
TimeoutResponse(timeout_seconds) ==
    Response(FALSE, <<>>, <<>>, -1,
             <<"Command timed out after ", ToString(timeout_seconds), " seconds">>)

\* execute_command, lines 261-271 (`except Exception`)
ExecutionFailedResponse(exc) ==
    Response(FALSE, <<>>, <<>>, -1, <<"Command execution failed: ", exc>>)

\* CommandExecutionService.execute_command, lines 386-393
ServiceErrorResponse(exc) ==
    Response(FALSE, <<>>, <<>>, -1, <<"Service error: ", exc>>)

\* asyncio.create_subprocess_exec as called at lines 201-210. The keyword
\* arguments it does not name itself (cwd, env, timeout) go on to
\* subprocess.Popen, and Popen has no parameter `timeout`: the call raises
\* TypeError before any process exists, whatever the command. Lines 212-259
\* (registering the handle, communicate, the history record, the time-out
\* branch) are therefore never reached.
create_subprocess_exec(request) == [exc |-> "TypeError"]

\* The `finally` of CommandExecutor.execute_command (lines 273-276). Every path
\* that reaches it does so before line 213 has assigned process_id, so
\* `process_id in self._running_processes` raises UnboundLocalError, which
\* replaces the response being returned.
FinallyUnbound(resp) == [exc |-> "UnboundLocalError", resp |-> resp]

\* The service without its `except Exception` (lines 386-393): the executor's
\* exception goes on to the caller, who gets no response
ServiceResultUncaught(outcome) ==
    IF outcome.exc # "" THEN [raised |-> outcome.exc] ELSE outcome.resp

\* CommandExecutionService.execute_command around the executor's outcome
ServiceResult(outcome) ==
    IF outcome.exc # "" THEN ServiceErrorResponse(outcome.exc) ELSE outcome.resp

\* The number of handles in self._running_processes
RegSize(reg) == Len(reg)

NewCall(request) ==
    [pc |-> "start", tool |-> request.tool, command |-> request.command,
     working_directory |-> request.working_directory, runs |-> request.runs,
     validation_result |-> <<>>, validated |-> FALSE, tool_status |-> <<>>, reached_spawn |-> FALSE,
     result |-> <<>>]

Finish(call, resp) == [call EXCEPT !.pc = "done", !.result = <<resp>>]

\* execute_command without the availability test of lines 187-193: the spawn
\* follows get_tool_status whatever it returned
AfterToolStatusUnchecked(call, tool) ==
    Finish([call EXCEPT !.tool_status = IF tool = <<>> THEN <<"None">> ELSE <<tool[1].status>>,
                        !.reached_spawn = TRUE],
           ServiceResult(FinallyUnbound(
               ExecutionFailedResponse(create_subprocess_exec(call).exc))))

\* execute_command, lines 186-210 and 261-276, once get_tool_status has
\* returned `tool` (<<>> for None): not available, or on to
\* create_subprocess_exec, whose exception `except Exception` turns into a
\* response; then the `finally`.
AfterToolStatus(call, tool) ==
    LET asked == [call EXCEPT !.tool_status =
                     IF tool = <<>> THEN <<"None">> ELSE <<tool[1].status>>]
    IN  IF tool = <<>> \/ tool[1].status # "available"
        THEN Finish(asked, ServiceResult(FinallyUnbound(NotAvailableResponse(call.tool))))
        ELSE LET spawned == create_subprocess_exec(call)
             IN  Finish([asked EXCEPT !.reached_spawn = TRUE],
                        ServiceResult(FinallyUnbound(ExecutionFailedResponse(spawned.exc))))

ExecInit ==
    /\ calls = <<>>
    /\ registry = <<>>
    /\ history = <<>>
    /\ initialized = FALSE
    /\ cache = EmptyCache
    /\ cache_timestamp = <<>>
    /\ now = 0
    /\ cancels = <<>>
    /\ histres = <<>>
    /\ cache_keys = <<>>
    /\ lock = <<>>
    /\ waiters = <<>>
    /\ dcalls = <<>>
    /\ inits = 0

\* No call of a detection strategy or of an API route has been made (the
\* specifications other than SpecS and SpecA)
FnInit ==
    /\ stratreq = <<>>
    /\ stratres = <<>>
    /\ apireq = <<>>
    /\ apires = <<>>
    /\ routeres = <<>>

\* The lock and the calls of the detection service proper (SpecD)
detVars == <<lock, waiters, dcalls>>

\* The inputs and outputs of SpecS and SpecA
fnVars == <<stratreq, stratres, apireq, apires, routeres>>

execVars == <<calls, registry, history, initialized, cache, cache_timestamp,
              now, cancels, histres, cache_keys, detVars, inits>>

MaxInits == 2

\* initialize() without the test of lines 359-360
initialize_unguarded == [initialized |-> TRUE, history |-> <<>>]

\* CommandExecutionService.initialize (lines 357-368): nothing when the
\* service is initialized; else clear_execution_history (lines 343-346) and
\* the flag. clear_execution_history holds no await that suspends, so the
\* call runs without interruption.
initialize ==
    IF initialized
    THEN [initialized |-> initialized, history |-> history]
    ELSE [initialized |-> TRUE, history |-> <<>>]

\* A call of initialize(): get_execution_service calls it when it builds the
\* service (ai_agent_api.py, line 136); any holder of the service may call it
\* again.
Initialize ==
    /\ inits < MaxInits
    /\ inits' = inits + 1
    /\ initialized' = initialize.initialized
    /\ history' = initialize.history
    /\ UNCHANGED <<valreq, valres, fnVars, calls, registry, cache,
                   cache_timestamp, now, cancels, histres, cache_keys, detVars>>

\* CommandExecutionService.execute_command up to the first await that
\* suspends: initialize() on first use (it clears the history), then
\* CommandExecutor.execute_command: validate_command, and get_tool_status when
\* the cache answers.
Start(request) ==
    LET v == validate_command(request.command, request.working_directory, ServerCwd)
        call == [NewCall(request) EXCEPT !.validation_result = <<v>>]
    IN  /\ Len(calls) < MaxCalls
        /\ initialized' = IF initialized THEN initialized ELSE initialize.initialized
        /\ history' = IF initialized THEN history ELSE initialize.history
        /\ inits' = IF initialized THEN inits ELSE inits + 1
        /\ calls' = Append(calls,
              IF ~v.valid
              THEN Finish(call, ServiceResult(FinallyUnbound(ValidationFailedResponse(v))))
              ELSE IF is_cache_valid /\ cache[request.tool] # <<>>
              THEN AfterToolStatus([call EXCEPT !.validated = TRUE], cache[request.tool])
              ELSE [call EXCEPT !.validated = TRUE, !.pc = "probing"])
        /\ UNCHANGED <<valreq, valres, fnVars, registry, cache, cache_timestamp,
                       now, cancels, histres, cache_keys, detVars>>

\* get_tool_status, lines 148-156: strategy.detect() has returned a
\* DetectedTool of the given status; it is stored and the timestamp refreshed.
\* Then the rest of execute_command. (No detect_tools pass runs in Spec, so
\* the lock of line 152 is free and the call does not suspend there.)
ProbeDone(c, status) ==
    LET tool == <<[status |-> status, last_detected |-> now]>>
    IN  /\ calls[c].pc = "probing"
        /\ cache' = [cache EXCEPT ![calls[c].tool] = tool]
        /\ cache_keys' = StoreKey(cache_keys, calls[c].tool)
        /\ cache_timestamp' = <<now>>
        /\ calls' = [calls EXCEPT ![c] = AfterToolStatus(calls[c], tool)]
        /\ UNCHANGED <<valreq, valres, fnVars, inits, registry, history, initialized, now,
                       cancels, histres, detVars>>

\* The execute calls that have reached create_subprocess_exec with a command
\* whose process runs past the timeout
LongRunning == {c \in 1..Len(calls) : calls[c].reached_spawn /\ calls[c].runs = "hangs"}

\* CommandExecutionService.cancel_all_executions, that is
\* CommandExecutor.cancel_running_processes (lines 323-337). The loop runs once
\* per registered handle; line 214, the only place that registers one, is never
\* reached, so the dict is empty, the loop body does not run and the call does
\* not suspend. Line 336 clears the dict and line 337 returns the counts.
\* `long_running` records which execute calls had started a long-running
\* command when the cancel call was made.
CancelAll ==
    LET cancelled_count == RegSize(registry)
    IN  /\ Len(cancels) < MaxCancels
        /\ registry' = <<>>
        /\ cancels' = Append(cancels,
              [result |-> [cancelled |-> cancelled_count, remaining |-> 0],
               long_running |-> LongRunning])
        /\ UNCHANGED <<valreq, valres, fnVars, inits, calls, history, initialized, cache,
                       cache_timestamp, now, histres, cache_keys, detVars>>

Init ==
    /\ valreq = [command |-> <<>>, working_directory |-> <<>>, cwd |-> ServerCwd]
    /\ valres = <<>>
    /\ ExecInit
    /\ FnInit

Next ==
    \/ \E request \in ExecRequests : Start(request)
    \/ \E c \in 1..Len(calls), status \in {"available", "missing", "error"} :
          ProbeDone(c, status)
    \/ CancelAll
    \/ Initialize

Spec == Init /\ [][Next]_vars

\* get_tool_status, line 149, when a process the strategy waits for never
\* exits: get_version and the docker checks await process.communicate() with
\* no deadline (detection_strategies.py, lines 38, 54, 100, 117), so
\* strategy.detect() does not return and the execute call stays suspended in
\* it. timeout_seconds applies to the command's process only (line 218).
ProbeHangs(c) ==
    /\ calls[c].pc = "probing"
    /\ calls' = [calls EXCEPT ![c].pc = "probe_hung"]
    /\ UNCHANGED <<valreq, valres, fnVars, inits, registry, history, initialized,
                   cache, cache_timestamp, now, cancels, histres, cache_keys, detVars>>

\* Spec with probes whose process may never exit, and the event loop running
\* whatever can run
NextL ==
    \/ Next
    \/ \E c \in 1..Len(calls) : ProbeHangs(c)

SpecL == Init /\ [][NextL]_vars /\ WF_vars(NextL)

(***************************************************************************)
(* SpecE: Spec with the third execution entry point,                       *)
(* AgentDetectionService.execute_command (agent_detection_service.py,      *)
(* lines 182-267). Its calls are kept in `calls` with the executor's; they *)
(* never call the validator, so their validation_result stays <<>>.        *)
(***************************************************************************)
\* shlex.split(command) raises ValueError ("No closing quotation") when a
\* quote is opened and not closed; q is the quote character the scan is
\* inside of at position i, or "". (No command of the model holds a
\* backslash.)
RECURSIVE UnclosedQuote(_, _, _)
UnclosedQuote(s, i, q) ==
    IF i > Len(s) THEN q # ""
    ELSE IF q = "" THEN UnclosedQuote(s, i + 1, IF IsQuote(s[i]) THEN s[i] ELSE "")
    ELSE UnclosedQuote(s, i + 1, IF s[i] = q THEN "" ELSE q)

shlex_split(command) ==
    [exc |-> IF UnclosedQuote(command, 1, "") THEN "ValueError" ELSE ""]

\* AgentDetectionService.execute_command, lines 257-267 (`except Exception`)
DetectionServiceErrorResponse(exc) ==
    Response(FALSE, <<>>, <<>>, -1, <<"Error executing command: ", exc>>)

\* AgentDetectionService.execute_command, lines 197-230 and 257-267, once
\* get_tool_status has returned `tool`: not available; else the empty-command
\* test (line 209), shlex.split (line 219) and create_subprocess_exec (lines
\* 224-230), which is called with the `timeout` keyword here too. No line
\* calls CommandValidator.
AfterToolStatusDirect(call, tool) ==
    LET asked == [call EXCEPT !.tool_status =
                     IF tool = <<>> THEN <<"None">> ELSE <<tool[1].status>>]
    IN  IF tool = <<>> \/ tool[1].status # "available"
        THEN Finish(asked, NotAvailableResponse(call.tool))
        ELSE IF Strip(call.command) = <<>>
        THEN Finish(asked, Response(FALSE, <<>>, <<>>, -1, <<"Command cannot be empty">>))
        ELSE IF shlex_split(call.command).exc # ""
        THEN Finish(asked, DetectionServiceErrorResponse(shlex_split(call.command).exc))
        ELSE Finish([asked EXCEPT !.reached_spawn = TRUE],
                    DetectionServiceErrorResponse(create_subprocess_exec(call).exc))

\* AgentDetectionService.execute_command up to the first await that
\* suspends: get_tool_status, answered by the cache or suspended in the probe
ExecuteDirect(request) ==
    /\ Len(calls) < MaxCalls
    /\ calls' = Append(calls,
          IF is_cache_valid /\ cache[request.tool] # <<>>
          THEN AfterToolStatusDirect(NewCall(request), cache[request.tool])
          ELSE [NewCall(request) EXCEPT !.pc = "probing_direct"])
    /\ UNCHANGED <<valreq, valres, fnVars, inits, registry, history, initialized,
                   cache, cache_timestamp, now, cancels, histres, cache_keys, detVars>>

\* get_tool_status, lines 148-156, for a call of
\* AgentDetectionService.execute_command, and the rest of that call
ProbeDoneDirect(c, status) ==
    LET tool == <<[status |-> status, last_detected |-> now]>>
    IN  /\ calls[c].pc = "probing_direct"
        /\ cache' = [cache EXCEPT ![calls[c].tool] = tool]
        /\ cache_keys' = StoreKey(cache_keys, calls[c].tool)
        /\ cache_timestamp' = <<now>>
        /\ calls' = [calls EXCEPT ![c] = AfterToolStatusDirect(calls[c], tool)]
        /\ UNCHANGED <<valreq, valres, fnVars, inits, registry, history, initialized, now,
                       cancels, histres, detVars>>

NextE ==
    \/ Next
    \/ \E request \in ExecRequests : ExecuteDirect(request)
    \/ \E c \in 1..Len(calls), status \in {"available", "missing", "error"} :
          ProbeDoneDirect(c, status)

SpecE == Init /\ [][NextE]_vars

(***************************************************************************)
(* SpecV: validate_command on bounded inputs                               *)
(***************************************************************************)
MaxParts == 3

\* The pieces the commands of SpecV are put together from.
Pieces ==
    { <<"l", "s">>,
      <<" ">>,
      <<"s", "s", "h">>,
      <<"C", "U", "R", "L">>,
      <<";">>,
      <<"\"">>,
      <<"a", ".", "t", "x", "t">>,
      <<"b", ".", "x", "y", "z">>,
      <<"/", "w", "x", "/", "a", ".", "m", "d">>,
      <<".", ".", "/", "a", ".", "p", "y">> }

RECURSIVE Flatten(_)
Flatten(parts) == IF parts = <<>> THEN <<>> ELSE Head(parts) \o Flatten(Tail(parts))

Repeat(c, n) == [i \in 1..n |-> c]

\* Commands of up to MaxParts pieces.
ShortCommands ==
    {Flatten(parts) : parts \in UNION {[1..n -> Pieces] : n \in 0..MaxParts}}

\* Commands at the length limit: one piece, then a run of one character that
\* brings the command to 2 characters below the limit, or to the limit.
LongCommands ==
    {p \o Repeat(c, n) : p \in Pieces, c \in {"x", " "},
                         n \in {MAX_COMMAND_LENGTH - 2, MAX_COMMAND_LENGTH}}

WorkDir == <<"/", "w">>
OtherDir == <<"/", "s", "r", "v">>

\* (working_directory, cwd): no working directory; the working directory the
\* process runs in; a working directory other than the process's.
DirCases == {<<<<>>, WorkDir>>, <<WorkDir, WorkDir>>, <<WorkDir, OtherDir>>}

ValInputs ==
    {[command |-> c, working_directory |-> d[1], cwd |-> d[2]] :
        c \in ShortCommands \cup LongCommands, d \in DirCases}

InitV ==
    /\ valreq \in ValInputs
    /\ valres = <<>>
    /\ ExecInit
    /\ FnInit

\* CommandExecutionService.validate_command(command, working_directory)
ValidateCall ==
    /\ valres = <<>>
    /\ valres' = <<validate_command(valreq.command, valreq.working_directory,
                                    valreq.cwd)>>
    /\ UNCHANGED <<valreq, execVars, fnVars>>

NextV == ValidateCall

SpecV == InitV /\ [][NextV]_vars

(***************************************************************************)
(* SpecH: get_execution_history and initialize on bounded histories        *)
(***************************************************************************)
MaxHist == 3
MaxLimit == 4

\* The record execute_command hands to _store_execution_history (lines
\* 226-233; execution_time_ms and timestamp left out)
HistoryRecord(tool, command, success, return_code) ==
    [tool |-> tool, command |-> command, success |-> success,
     return_code |-> return_code]

HistoryRecords ==
    { HistoryRecord("claude_code", <<"l", "s">>, TRUE, 0),
      HistoryRecord("gemini_cli", <<"l", "s">>, TRUE, 0),
      HistoryRecord("gemini_cli", <<"b", ".", "x", "y", "z">>, FALSE, 1) }

\* self._execution_history as get_execution_history may find it: up to
\* MaxHist records, oldest first
Histories == UNION {[1..n -> HistoryRecords] : n \in 0..MaxHist}

Limits == 0..MaxLimit

\* The Python slice s[start:]: a negative start counts from the end, and a
\* start outside the list is clamped to it
SliceFrom(s, start) ==
    LET n == Len(s)
        lower == IF start < 0
                 THEN (IF n + start < 0 THEN 0 ELSE n + start)
                 ELSE (IF start > n THEN n ELSE start)
    IN  SubSeq(s, lower + 1, n)

\* CommandExecutor.get_execution_history: self._execution_history[-limit:]
get_execution_history(records, limit) == SliceFrom(records, 0 - limit)

InitH ==
    /\ valreq = [command |-> <<>>, working_directory |-> <<>>, cwd |-> ServerCwd]
    /\ valres = <<>>
    /\ calls = <<>>
    /\ registry = <<>>
    /\ history \in Histories
    /\ initialized \in BOOLEAN
    /\ cache = EmptyCache
    /\ cache_timestamp = <<>>
    /\ now = 0
    /\ cancels = <<>>
    /\ histres = <<>>
    /\ cache_keys = <<>>
    /\ lock = <<>>
    /\ waiters = <<>>
    /\ dcalls = <<>>
    /\ inits = 0
    /\ FnInit

\* CommandExecutionService.get_execution_history(limit)
GetHistory(limit) ==
    /\ histres = <<>>
    /\ histres' = <<[limit |-> limit,
                     records |-> get_execution_history(history, limit)]>>
    /\ UNCHANGED <<valreq, valres, fnVars, inits, calls, registry, history,
                   initialized, cache, cache_timestamp, now, cancels,
                   cache_keys, detVars>>

\* get_execution_history and initialize() on the service as InitH finds it
NextH ==
    \/ \E limit \in Limits : GetHistory(limit)
    \/ Initialize

SpecH == InitH /\ [][NextH]_vars

(***************************************************************************)
(* SpecD: AgentDetectionService. The calls are coroutines on one event     *)
(* loop: a call runs without interruption up to an await that suspends it  *)
(* (strategy.detect(), which waits for subprocesses, and _lock.acquire()   *)
(* when the lock is held), and each action below is one such stretch.      *)
(***************************************************************************)
MaxDCalls == 2
MaxNow == 5

\* DetectedTool (name, executable_path, version and metadata left out)
DetectedTool(tool_type, status, last_detected) ==
    [tool_type |-> tool_type, status |-> status, last_detected |-> last_detected]

\* The statuses of the DetectedTool that strategy.detect() returns. detect()
\* wraps its whole body in try/except Exception and answers an exception with
\* a DetectedTool of status "error": it returns in every case and raises no
\* Exception to its caller, so the `except` clauses of detect_tools (lines
\* 80-91 and 119-130) and of get_tool_status (lines 158-160) are not entered.
\* Of these the model tries "available" and "error"; no line of the service
\* treats "missing" otherwise than "error".
ProbeStatuses == {"available", "error"}

\* DetectionRequest(tools_to_detect, force_refresh)
DetectionRequest(tools_to_detect, force_refresh) ==
    [tools_to_detect |-> tools_to_detect, force_refresh |-> force_refresh]
DetectRequests ==
    { DetectionRequest(<<"claude_code">>, TRUE),
      DetectionRequest(<<"gemini_cli", "claude_code">>, FALSE),
      DetectionRequest(<<"gemini_cli", "claude_code">>, TRUE) }

\* The tools get_tool_status is asked about
StatusRequests == {"gemini_cli"}

\* DetectionResult; execution_time_ms is 0 or the time elapsed on the clock
DetectionResult(tools, total_detected, detection_timestamp, errors, execution_time_ms) ==
    [tools |-> tools, total_detected |-> total_detected,
     detection_timestamp |-> detection_timestamp, errors |-> errors,
     execution_time_ms |-> execution_time_ms]

\* list(self._cache.values())
CachedTools == [i \in 1..Len(cache_keys) |-> cache[cache_keys[i]][1]]

\* The count of line 56 without its condition on the status
TotalListed(tools) == Len(tools)

\* sum(1 for tool in tools if tool.status == ToolStatus.AVAILABLE)
TotalDetected(tools) ==
    Cardinality({i \in DOMAIN tools : tools[i].status = "available"})

\* The record of a call of the detection service. tools: the tools asked
\* for; probed: the tools strategy.detect() was called for; found: what it
\* returned (the local `tools` of detect_tools, the local `tool` of
\* get_tool_status); waited: the call was suspended in _lock.acquire().
NewDCall(kind, tools, force_refresh) ==
    [kind |-> kind, pc |-> "start", tools |-> tools,
     force_refresh |-> force_refresh, start_time |-> now, probed |-> <<>>,
     found |-> <<>>, errors |-> <<>>, waited |-> FALSE, result |-> <<>>]

\* detect_tools, line 52, with the force_refresh flag not looked at
use_cached_ignoring_force(force_refresh) == is_cache_valid

\* detect_tools, line 52: the cache answers the request
use_cached(force_refresh) == ~force_refresh /\ is_cache_valid

\* A lock that nobody ever finds held
locked_never == FALSE

\* self._lock.locked(): `async with self._lock` suspends the caller
locked == lock # <<>>

\* asyncio.Lock.release: the lock goes to the call that has waited longest.
\* (release() wakes the first waiter; until that waiter runs, acquire() sees
\* a waiter queued and queues behind it, so no other call gets the lock.)
ReleasedLock == IF waiters = <<>> THEN <<>> ELSE <<Head(waiters)>>
ReleasedWaiters == IF waiters = <<>> THEN <<>> ELSE Tail(waiters)

\* detect_tools, lines 47-74: the cached answer (lines 52-60); else the
\* clearing of a forced refresh (lines 63-65), then `async with self._lock`
\* and, once the lock is held, strategy.detect() for the first tool.
DetectTools(request) ==
    LET id == Len(dcalls) + 1
        call == NewDCall("detect_tools", request.tools_to_detect,
                         request.force_refresh)
    IN  /\ Len(dcalls) < MaxDCalls
        /\ IF use_cached(request.force_refresh)
           THEN /\ dcalls' = Append(dcalls,
                      [call EXCEPT !.pc = "done",
                                   !.result = <<DetectionResult(CachedTools,
                                       TotalDetected(CachedTools),
                                       cache_timestamp[1], <<>>, 0)>>])
                /\ UNCHANGED <<cache, cache_keys, cache_timestamp, lock, waiters>>
           ELSE /\ IF request.force_refresh
                   THEN /\ cache' = EmptyCache
                        /\ cache_keys' = <<>>
                        /\ cache_timestamp' = <<>>
                   ELSE UNCHANGED <<cache, cache_keys, cache_timestamp>>
                /\ IF ~locked
                   THEN /\ lock' = <<id>>
                        /\ dcalls' = Append(dcalls,
                              [call EXCEPT !.pc = "detecting",
                                           !.probed = <<call.tools[1]>>])
                        /\ UNCHANGED waiters
                   ELSE /\ waiters' = Append(waiters, id)
                        /\ dcalls' = Append(dcalls,
                              [call EXCEPT !.pc = "acquiring", !.waited = TRUE])
                        /\ UNCHANGED lock
        /\ UNCHANGED <<valreq, valres, fnVars, inits, calls, registry, history, initialized,
                       now, cancels, histres>>

\* detect_tools, lines 70-74, for a call that waited for the lock: it holds
\* the lock now and calls strategy.detect() for the first tool.
DetectAcquired(c) ==
    /\ dcalls[c].kind = "detect_tools"
    /\ dcalls[c].pc = "acquiring"
    /\ lock = <<c>>
    /\ dcalls' = [dcalls EXCEPT ![c].pc = "detecting",
                                ![c].probed = <<dcalls[c].tools[1]>>]
    /\ UNCHANGED <<valreq, valres, fnVars, inits, calls, registry, history, initialized, cache,
                   cache_timestamp, now, cancels, histres, cache_keys, lock,
                   waiters>>

\* detect_tools, lines 74-78 and 94-117: strategy.detect() has returned a
\* DetectedTool of the given status; it is appended to `tools` and stored.
\* Then strategy.detect() for the next tool or, after the last one, the
\* timestamp, the release of the lock and the result.
DetectProbed(c, status) ==
    LET call == dcalls[c]
        i == Len(call.found) + 1
        tool == DetectedTool(call.tools[i], status, now)
        tools == Append(call.found, tool)
    IN  /\ call.kind = "detect_tools"
        /\ call.pc = "detecting"
        /\ cache' = [cache EXCEPT ![call.tools[i]] = <<tool>>]
        /\ cache_keys' = StoreKey(cache_keys, call.tools[i])
        /\ IF i < Len(call.tools)
           THEN /\ dcalls' = [dcalls EXCEPT ![c].found = tools,
                                 ![c].probed = Append(call.probed, call.tools[i + 1])]
                /\ UNCHANGED <<cache_timestamp, lock, waiters>>
           ELSE /\ cache_timestamp' = <<now>>
                /\ lock' = ReleasedLock
                /\ waiters' = ReleasedWaiters
                /\ dcalls' = [dcalls EXCEPT ![c].found = tools,
                                 ![c].pc = "done",
                                 ![c].result = <<DetectionResult(tools,
                                     TotalDetected(tools), now, call.errors,
                                     now - call.start_time)>>]
        /\ UNCHANGED <<valreq, valres, fnVars, inits, calls, registry, history, initialized,
                       now, cancels, histres>>

\* get_tool_status, lines 142-149: the cached entry, or strategy.detect()
GetToolStatus(tool_type) ==
    LET call == NewDCall("get_tool_status", <<tool_type>>, FALSE)
    IN  /\ Len(dcalls) < MaxDCalls
        /\ dcalls' = Append(dcalls,
              IF is_cache_valid /\ cache[tool_type] # <<>>
              THEN [call EXCEPT !.pc = "done", !.result = cache[tool_type]]
              ELSE [call EXCEPT !.pc = "detecting", !.probed = <<tool_type>>])
        /\ UNCHANGED <<valreq, valres, fnVars, inits, calls, registry, history, initialized,
                       cache, cache_timestamp, now, cancels, histres,
                       cache_keys, lock, waiters>>

\* get_tool_status, lines 149-156: strategy.detect() has returned; then
\* `async with self._lock`, and with the lock the entry is stored, the
\* timestamp refreshed and the tool returned.
GetProbed(c, status) ==
    LET call == dcalls[c]
        tool == DetectedTool(call.tools[1], status, now)
    IN  /\ call.kind = "get_tool_status"
        /\ call.pc = "detecting"
        /\ IF ~locked
           THEN /\ cache' = [cache EXCEPT ![call.tools[1]] = <<tool>>]
                /\ cache_keys' = StoreKey(cache_keys, call.tools[1])
                /\ cache_timestamp' = <<now>>
                /\ dcalls' = [dcalls EXCEPT ![c].found = <<tool>>,
                                 ![c].pc = "done", ![c].result = <<tool>>]
                /\ UNCHANGED <<lock, waiters>>
           ELSE /\ waiters' = Append(waiters, c)
                /\ dcalls' = [dcalls EXCEPT ![c].found = <<tool>>,
                                 ![c].pc = "acquiring", ![c].waited = TRUE]
                /\ UNCHANGED <<cache, cache_keys, cache_timestamp, lock>>
        /\ UNCHANGED <<valreq, valres, fnVars, inits, calls, registry, history, initialized,
                       now, cancels, histres>>

\* get_tool_status, lines 152-156, for a call that waited for the lock
GetAcquired(c) ==
    LET call == dcalls[c]
    IN  /\ call.kind = "get_tool_status"
        /\ call.pc = "acquiring"
        /\ lock = <<c>>
        /\ cache' = [cache EXCEPT ![call.tools[1]] = call.found]
        /\ cache_keys' = StoreKey(cache_keys, call.tools[1])
        /\ cache_timestamp' = <<now>>
        /\ lock' = ReleasedLock
        /\ waiters' = ReleasedWaiters
        /\ dcalls' = [dcalls EXCEPT ![c].pc = "done", ![c].result = call.found]
        /\ UNCHANGED <<valreq, valres, fnVars, inits, calls, registry, history, initialized,
                       now, cancels, histres>>

\* clear_cache, lines 279-280, with line 280 left out
ClearedStoreKeepsTimestamp ==
    [cache |-> EmptyCache, cache_keys |-> <<>>, cache_timestamp |-> cache_timestamp]

\* clear_cache, lines 279-280: self._cache.clear(); self._cache_timestamp = None
ClearedStore ==
    [cache |-> EmptyCache, cache_keys |-> <<>>, cache_timestamp |-> <<>>]

\* clear_cache: `async with self._lock`, and with the lock the entries and
\* the timestamp are dropped (lines 279-280).
ClearCache ==
    LET id == Len(dcalls) + 1
        call == NewDCall("clear_cache", <<>>, FALSE)
    IN  /\ Len(dcalls) < MaxDCalls
        /\ IF ~locked
           THEN /\ cache' = ClearedStore.cache
                /\ cache_keys' = ClearedStore.cache_keys
                /\ cache_timestamp' = ClearedStore.cache_timestamp
                /\ dcalls' = Append(dcalls, [call EXCEPT !.pc = "done"])
                /\ UNCHANGED <<lock, waiters>>
           ELSE /\ waiters' = Append(waiters, id)
                /\ dcalls' = Append(dcalls,
                      [call EXCEPT !.pc = "acquiring", !.waited = TRUE])
                /\ UNCHANGED <<cache, cache_keys, cache_timestamp, lock>>
        /\ UNCHANGED <<valreq, valres, fnVars, inits, calls, registry, history, initialized,
                       now, cancels, histres>>

\* clear_cache, lines 279-281, for a call that waited for the lock
ClearAcquired(c) ==
    /\ dcalls[c].kind = "clear_cache"
    /\ dcalls[c].pc = "acquiring"
    /\ lock = <<c>>
    /\ cache' = ClearedStore.cache
    /\ cache_keys' = ClearedStore.cache_keys
    /\ cache_timestamp' = ClearedStore.cache_timestamp
    /\ lock' = ReleasedLock
    /\ waiters' = ReleasedWaiters
    /\ dcalls' = [dcalls EXCEPT ![c].pc = "done"]
    /\ UNCHANGED <<valreq, valres, fnVars, inits, calls, registry, history, initialized,
                   now, cancels, histres>>

\* Time passes. The clock is looked at one minute before each multiple of the
\* TTL and at each multiple of it: 0, 4, 5, 9, 10, ...
NextTime(t) ==
    IF t % CACHE_TTL = CACHE_TTL - 1 THEN t + 1 ELSE t + (CACHE_TTL - 1)

Tick ==
    /\ NextTime(now) <= MaxNow
    /\ now' = NextTime(now)
    /\ UNCHANGED <<valreq, valres, fnVars, inits, calls, registry, history, initialized, cache,
                   cache_timestamp, cancels, histres, cache_keys, detVars>>

NextD ==
    \/ \E request \in DetectRequests : DetectTools(request)
    \/ \E c \in 1..Len(dcalls) : DetectAcquired(c)
    \/ \E c \in 1..Len(dcalls), status \in ProbeStatuses : DetectProbed(c, status)
    \/ \E tool_type \in StatusRequests : GetToolStatus(tool_type)
    \/ \E c \in 1..Len(dcalls), status \in ProbeStatuses : GetProbed(c, status)
    \/ \E c \in 1..Len(dcalls) : GetAcquired(c)
    \/ ClearCache
    \/ \E c \in 1..Len(dcalls) : ClearAcquired(c)
    \/ Tick

SpecD == Init /\ [][NextD]_vars

(***************************************************************************)
(* SpecS: the detection strategies. detect() and get_version() are applied *)
(* to one tool and to what the probes they run meet on the machine.        *)
(***************************************************************************)
\* DetectionStrategy.tool_name (lines 131, 214, 297)
tool_name ==
    [claude_code |-> <<"C", "l", "a", "u", "d", "e", " ", "C", "o", "d", "e">>,
     gemini_cli |-> <<"G", "e", "m", "i", "n", "i", " ", "C", "L", "I">>,
     qwen_code |-> <<"Q", "w", "e", "n", " ", "C", "o", "d", "e">>]

\* `executable` of detect() (lines 135, 218, 301)
Executable ==
    [claude_code |-> "claude", gemini_cli |-> "gemini", qwen_code |-> "qwen-code"]

\* The commands the alias probe spawns with --help (lines 157, 240, 321)
AliasCommands ==
    [claude_code |-> <<"claude">>, gemini_cli |-> <<"gemini">>,
     qwen_code |-> <<"qwen-code", "qwen">>]

\* The container and image names looked for (lines 181, 264, 348)
ContainerNames ==
    [claude_code |-> << <<"c", "l", "a", "u", "d", "e", "-", "c", "o", "d", "e">> >>,
     gemini_cli |-> << <<"g", "e", "m", "i", "n", "i", "-", "c", "l", "i">> >>,
     qwen_code |-> << <<"q", "w", "e", "n", "-", "c", "o", "d", "e">>,
                      <<"q", "w", "e", "n">> >>]

\* The flags get_version retries with (line 47)
AlternateFlags == <<"-V", "version", "info">>

\* What spawning a command with a flag does: the spawn raises exc, or the
\* process exits with returncode having written stdout
Run(exc, returncode, stdout) ==
    [exc |-> exc, returncode |-> returncode, stdout |-> stdout]

\* What `<command> --version` may do: print "v1.2.3", print nothing, print
\* "ERROR", exit with code 2, or fail to start
VersionRuns ==
    { Run("", 0, <<"v", "1", ".", "2", ".", "3">>),
      Run("", 0, <<>>),
      Run("", 0, <<"E", "R", "R", "O", "R">>),
      Run("", 2, <<>>),
      Run("OSError", 0, <<>>) }

\* What `<command> <alternate flag>` may do: print "9.8", print nothing, or
\* exit with code 2
AlternateRuns ==
    { Run("", 0, <<"9", ".", "8">>),
      Run("", 0, <<>>),
      Run("", 2, <<>>) }

\* The exit codes of `<command> --help`
HelpCodes == {0, 1, 2}

\* The docker of the machine: whether `docker` can be run, the names `docker
\* ps` lists and the repositories `docker images` lists
DockerEnvs(tool) ==
    LET names == Range(ContainerNames[tool])
    IN  {[up |-> FALSE, ps |-> {}, images |-> {}], [up |-> TRUE, ps |-> {}, images |-> {}]}
        \cup {[up |-> TRUE, ps |-> {n}, images |-> {}] : n \in names}
        \cup {[up |-> TRUE, ps |-> {}, images |-> {n}] : n \in names}

\* What a strategy meets: the exception shutil.which raises ("" for none),
\* the commands found in PATH, what the command does with each version flag,
\* the exit code of its --help, and the docker of the machine
StrategyEnv(tool, which_exc, on_path, runs, help, docker) ==
    [tool |-> tool, which_exc |-> which_exc, on_path |-> on_path, runs |-> runs,
     help |-> help, docker |-> docker]

\* What the command does with each flag: `first` with --version, rest[flag]
\* with an alternate flag
VersionRunsOf(first, rest) ==
    [flag \in {"--version"} \cup Range(AlternateFlags) |->
        IF flag = "--version" THEN first ELSE rest[flag]]

IsDigit(c) == c \in Range(DigitChars)

\* The end of the longest run of digits that starts at position i, or 0
DigitsEnd(s, i) ==
    IF i > Len(s) \/ ~IsDigit(s[i]) THEN 0
    ELSE LET stops == {j \in i..Len(s) : ~IsDigit(s[j])}
         IN  IF stops = {} THEN Len(s) ELSE MinOf(stops) - 1

\* The end of the match of [0-9]+\.[0-9]+ at position i, or 0
PairEnd(s, i) ==
    LET a == DigitsEnd(s, i)
    IN  IF a = 0 \/ a + 1 > Len(s) THEN 0
        ELSE IF s[a + 1] # "." THEN 0 ELSE DigitsEnd(s, a + 2)

\* The end of the match of [0-9]+\.[0-9]+\.[0-9]+ at position i, or 0
TripleEnd(s, i) ==
    LET b == PairEnd(s, i)
    IN  IF b = 0 \/ b + 1 > Len(s) THEN 0
        ELSE IF s[b + 1] # "." THEN 0 ELSE DigitsEnd(s, b + 2)

\* Where the group of version\s+([0-9]+\.[0-9]+\.[0-9]+) starts when the
\* expression matches at position i (case ignored), or 0
VersionWordGroup(s, i) ==
    LET word == <<"v", "e", "r", "s", "i", "o", "n">>
        after == i + Len(word)
        rest == {j \in after..Len(s) : ~IsSpace(s[j])}
    IN  IF i + Len(word) - 1 > Len(s) THEN 0
        ELSE IF Lower(SubSeq(s, i, i + Len(word) - 1)) # word THEN 0
        ELSE IF rest = {} THEN 0
        ELSE IF MinOf(rest) = after THEN 0
        ELSE IF TripleEnd(s, MinOf(rest)) = 0 THEN 0 ELSE MinOf(rest)

\* re.search(pattern, s, re.IGNORECASE).group(1) for the four patterns of
\* lines 73-78, in list order: <<the group of the first pattern that
\* matches, at its leftmost match>>, or <<>>
PatternMatch(s) ==
    LET p1 == {i \in 1..Len(s) : VersionWordGroup(s, i) # 0}
        p2 == {i \in 1..Len(s) : LowerChar(s[i]) = "v" /\ TripleEnd(s, i + 1) # 0}
        p3 == {i \in 1..Len(s) : TripleEnd(s, i) # 0}
        p4 == {i \in 1..Len(s) : PairEnd(s, i) # 0}
    IN  IF p1 # {}
        THEN LET g == VersionWordGroup(s, MinOf(p1)) IN <<SubSeq(s, g, TripleEnd(s, g))>>
        ELSE IF p2 # {}
        THEN <<SubSeq(s, MinOf(p2) + 1, TripleEnd(s, MinOf(p2) + 1))>>
        ELSE IF p3 # {}
        THEN <<SubSeq(s, MinOf(p3), TripleEnd(s, MinOf(p3)))>>
        ELSE IF p4 # {}
        THEN <<SubSeq(s, MinOf(p4), PairEnd(s, MinOf(p4)))>>
        ELSE <<>>

\* version_output.split('\n')[0].strip()
FirstLine(s) ==
    LET breaks == {i \in 1..Len(s) : s[i] = "\n"}
    IN  Strip(IF breaks = {} THEN s ELSE SubSeq(s, 1, MinOf(breaks) - 1))

\* DetectionStrategy._extract_version (lines 70-90): <<the version>>, or <<>>
\* for None
extract_version(version_output) ==
    LET first_line == FirstLine(version_output)
    IN  IF PatternMatch(version_output) # <<>> THEN PatternMatch(version_output)
        ELSE IF /\ first_line # <<>>
                /\ ~StartsWith(first_line, <<"E", "R", "R", "O", "R">>)
                /\ Len(first_line) < 100
        THEN <<first_line>>
        ELSE <<>>

\* The run exited with code 0 and its output holds a version
Yields(run) ==
    run.exc = "" /\ run.returncode = 0 /\ extract_version(Strip(run.stdout)) # <<>>

\* Line 45: "claude" in self.tool_name.lower()
retries_alternates(tool) ==
    Contains(Lower(tool_name[tool]), <<"c", "l", "a", "u", "d", "e">>)

\* The alternate flags, as positions in AlternateFlags, with which the
\* command exits 0 and prints a version
good_flags(runs) == {i \in DOMAIN AlternateFlags : Yields(runs[AlternateFlags[i]])}

\* The loop of lines 47-62 and line 64: the flags are tried in order up to the
\* first of `good`
retry_alternates(runs, good) ==
    IF good = {}
    THEN [version |-> <<>>, ran |-> <<"--version">> \o AlternateFlags]
    ELSE [version |-> extract_version(Strip(runs[AlternateFlags[MinOf(good)]].stdout)),
          ran |-> <<"--version">> \o SubSeq(AlternateFlags, 1, MinOf(good))]

\* DetectionStrategy.get_version (lines 30-68) for a command that does `runs`:
\* the version (<<>> for None) and the flags the command was spawned with
get_version(tool, runs) ==
    IF runs["--version"].exc # ""
    THEN [version |-> <<>>, ran |-> <<"--version">>]
    ELSE IF runs["--version"].returncode = 0
    THEN [version |-> extract_version(Strip(runs["--version"].stdout)),
          ran |-> <<"--version">>]
    ELSE IF ~retries_alternates(tool)
    THEN [version |-> <<>>, ran |-> <<"--version">>]
    ELSE retry_alternates(runs, good_flags(runs))

\* DetectedTool as the strategies build it (name and last_detected left
\* out); an absent executable_path or version is <<>>
DetectedToolFull(tool_type, status, executable_path, version, metadata) ==
    [tool_type |-> tool_type, status |-> status, executable_path |-> executable_path,
     version |-> version, metadata |-> metadata]

\* shutil.which(cmd): <<the path>>, or <<>> for None
which(env, cmd) == IF cmd \in env.on_path THEN <<"/usr/bin/" \o cmd>> ELSE <<>>

\* process.communicate(timeout=5) (lines 161, 244, 328):
\* asyncio.subprocess.Process.communicate has no parameter `timeout`, so the
\* call raises TypeError once the process has been spawned.
communicate_timeout == [exc |-> "TypeError"]

\* The alias probe of one command (lines 155-163): the spawn of
\* `<cmd> --help`, which raises FileNotFoundError when PATH does not hold the
\* command, then communicate(timeout=5)
alias_probe(env, cmd) ==
    IF cmd \notin env.on_path
    THEN [exc |-> "FileNotFoundError", returncode |-> env.help]
    ELSE [exc |-> communicate_timeout.exc, returncode |-> env.help]

\* Line 163 is reached and its test holds; the `except` clauses of lines
\* 175-178 swallow what the probe raises
alias_found(env, cmd) ==
    alias_probe(env, cmd).exc = "" /\ alias_probe(env, cmd).returncode \in {0, 1}

\* _check_docker_container (lines 92-107)
check_docker_container(env, container_name) ==
    env.docker.up /\ container_name \in env.docker.ps

\* _check_docker_image (lines 109-124): the name is looked for inside each
\* listed image
check_docker_image(env, image_name) ==
    env.docker.up /\ \E image \in env.docker.images : Contains(image, image_name)

\* The docker commands one turn of the container step spawns: `docker ps`,
\* and `docker images` when the container is not running
DockerRan(env, name) ==
    IF check_docker_container(env, name)
    THEN << <<"docker", "ps">> >>
    ELSE << <<"docker", "ps">>, <<"docker", "images">> >>

\* detect() without its `except Exception`: the exception leaves detect()
detect_failed_uncaught(tool, exc) == [raised |-> exc]

\* The `except Exception` of detect() (lines 200-207, 283-290, 369-376)
detect_failed(tool, exc) ==
    DetectedToolFull(tool, "error", <<>>, <<>>, [error |-> exc])

\* The command spawned once with each of the flags
Spawned(cmd, flags) == [i \in DOMAIN flags |-> <<cmd, flags[i]>>]

\* The spawns of the PATH step (lines 139-143): get_version when which() gave
\* a path
PathRan(tool, path, version) ==
    IF path # <<>> THEN Spawned(Executable[tool], version.ran) ELSE <<>>

\* The commands of the alias step, as positions in AliasCommands, whose probe
\* finds an alias
aliases_found(env) ==
    {i \in DOMAIN AliasCommands[env.tool] : alias_found(env, AliasCommands[env.tool][i])}

\* The spawns of the alias step (lines 155-160, 321-327): --help for each
\* command in turn up to the first of `found`
HelpRan(tool, found) ==
    [i \in 1..(IF found = {} THEN Len(AliasCommands[tool]) ELSE MinOf(found)) |->
        <<AliasCommands[tool][i], "--help">>]

\* The names of the container step, as positions in ContainerNames, for which
\* a container runs or an image is there
containers_found(env) ==
    {i \in DOMAIN ContainerNames[env.tool] :
        \/ check_docker_container(env, ContainerNames[env.tool][i])
        \/ check_docker_image(env, ContainerNames[env.tool][i])}

\* The spawns of the container step (lines 181, 349-350): the docker commands
\* for each name in turn up to the first of `there`
ContainerRan(env, there) ==
    Flatten([i \in 1..(IF there = {} THEN Len(ContainerNames[env.tool]) ELSE MinOf(there)) |->
                DockerRan(env, ContainerNames[env.tool][i])])

\* The body of detect() after shutil.which has returned `path`: the PATH step
\* with `version` what get_version returns, the alias step with `found` the
\* commands whose probe finds an alias, the container step with `there` the
\* names found, and the DetectedTool of the first step that succeeds
detect_steps(env, path, version, found, there) ==
    IF path # <<>> /\ version.version # <<>>
    THEN [tool |-> DetectedToolFull(env.tool, "available", path, version.version,
                      [command |-> Executable[env.tool], type |-> "executable"]),
          ran |-> PathRan(env.tool, path, version)]
    ELSE IF found # {}
    THEN [tool |-> DetectedToolFull(env.tool, "available",
                      <<AliasCommands[env.tool][MinOf(found)]>>, version.version,
                      [command |-> AliasCommands[env.tool][MinOf(found)], type |-> "alias"]),
          ran |-> PathRan(env.tool, path, version) \o HelpRan(env.tool, found)
                  \o Spawned(AliasCommands[env.tool][MinOf(found)], version.ran)]
    ELSE IF there # {}
    THEN [tool |-> DetectedToolFull(env.tool, "available", <<"docker">>, <<"container">>,
                      [command |-> Executable[env.tool], type |-> "docker",
                       container |-> ContainerNames[env.tool][MinOf(there)]]),
          ran |-> PathRan(env.tool, path, version) \o HelpRan(env.tool, found)
                  \o ContainerRan(env, there)]
    ELSE [tool |-> DetectedToolFull(env.tool, "missing", <<>>, <<>>,
                      [reason |-> "Not found in PATH or as alias"]),
          ran |-> PathRan(env.tool, path, version) \o HelpRan(env.tool, found)
                  \o ContainerRan(env, there)]

\* detect() (lines 133-207, 216-290, 299-376): the DetectedTool returned and
\* the commands spawned on the way, in order
detect(env) ==
    IF env.which_exc # ""
    THEN [tool |-> detect_failed(env.tool, env.which_exc), ran |-> <<>>]
    ELSE detect_steps(env, which(env, Executable[env.tool]),
                      get_version(env.tool, env.runs), aliases_found(env),
                      containers_found(env))

\* What a call of the strategy did, as SpecS records it
DetectRecord(done) == [call |-> "detect", tool |-> done.tool, ran |-> done.ran]
VersionRecord(done) == [call |-> "get_version", version |-> done.version, ran |-> done.ran]

InitS ==
    /\ valreq = [command |-> <<>>, working_directory |-> <<>>, cwd |-> ServerCwd]
    /\ valres = <<>>
    /\ ExecInit
    /\ \E tool \in ToolTypes, which_exc \in {"", "OSError"}, help \in HelpCodes :
       \E on_path \in SUBSET Range(AliasCommands[tool]), docker \in DockerEnvs(tool) :
       \E first \in VersionRuns, rest \in [Range(AlternateFlags) -> AlternateRuns] :
          stratreq = StrategyEnv(tool, which_exc, on_path, VersionRunsOf(first, rest),
                                 help, docker)
    /\ stratres = <<>>
    /\ apireq = <<>>
    /\ apires = <<>>
    /\ routeres = <<>>

\* strategy.detect() of the tool's strategy
StrategyDetect ==
    /\ stratres = <<>>
    /\ stratres' = <<DetectRecord(detect(stratreq))>>
    /\ UNCHANGED <<valreq, valres, execVars, stratreq, apireq, apires, routeres>>

\* strategy.get_version(path) with the path shutil.which gave for the tool's
\* executable
StrategyGetVersion ==
    /\ stratres = <<>>
    /\ which(stratreq, Executable[stratreq.tool]) # <<>>
    /\ stratres' = <<VersionRecord(get_version(stratreq.tool, stratreq.runs))>>
    /\ UNCHANGED <<valreq, valres, execVars, stratreq, apireq, apires, routeres>>

NextS ==
    \/ StrategyDetect
    \/ StrategyGetVersion

SpecS == InitS /\ [][NextS]_vars

(***************************************************************************)
(* SpecA: the tool identifiers of the batch routes GET /tools (list_tools) *)
(* and POST /detect (detect_tools) of ai_agent_api.py                      *)
(***************************************************************************)
MaxToolStrings == 3

\* The strings a request may name tools with: the three identifiers, one of
\* them in other letter case, and a name that is no tool
ToolStrings == {"claude_code", "gemini_cli", "qwen_code", "Claude_Code", "codex"}

\* The list both routes fall back on (lines 201 and 219, 36 and 276)
AllTools == <<"claude_code", "gemini_cli", "qwen_code">>

\* The requests: GET /tools without `tools` (<<>> for None), and either
\* route with a list of up to MaxToolStrings strings
ApiRequests ==
    {[route |-> "list_tools", tools |-> <<>>]}
    \cup {[route |-> route, tools |-> <<strings>>] :
             route \in {"list_tools", "detect_tools"},
             strings \in UNION {[1..n -> ToolStrings] : n \in 0..MaxToolStrings}}

\* The if/elif chain of lines 207-214 and 264-271 for one string: <<the
\* ToolType>>, or <<>> when the string is logged as unknown
to_tool_type(tool_str) ==
    IF tool_str = "claude_code" THEN <<"claude_code">>
    ELSE IF tool_str = "gemini_cli" THEN <<"gemini_cli">>
    ELSE IF tool_str = "qwen_code" THEN <<"qwen_code">>
    ELSE <<>>

\* The loop of lines 204-216 and 262-273: tool_types after it
RECURSIVE map_tool_types(_)
map_tool_types(strings) ==
    IF strings = <<>> THEN <<>>
    ELSE to_tool_type(Head(strings)) \o map_tool_types(Tail(strings))

\* The strings the loop logs as unknown
RECURSIVE unknown_tool_strings(_)
unknown_tool_strings(strings) ==
    IF strings = <<>> THEN <<>>
    ELSE (IF to_tool_type(Head(strings)) = <<>> THEN <<Head(strings)>> ELSE <<>>)
         \o unknown_tool_strings(Tail(strings))

\* The routes without lines 218-219 and 275-276
tool_types_no_default(tool_types) == tool_types

\* Lines 218-219 and 275-276: `if not tool_types: tool_types = [all three]`
tool_types_or_default(tool_types) ==
    IF tool_types = <<>> THEN AllTools ELSE tool_types

\* What a route hands to detection_service.detect_tools
ToolsHanded(strings) ==
    [tools_to_detect |-> tool_types_or_default(map_tool_types(strings)),
     unknown |-> unknown_tool_strings(strings)]

InitA ==
    /\ valreq = [command |-> <<>>, working_directory |-> <<>>, cwd |-> ServerCwd]
    /\ valres = <<>>
    /\ ExecInit
    /\ stratreq = <<>>
    /\ stratres = <<>>
    /\ apireq \in ApiRequests
    /\ apires = <<>>
    /\ routeres = <<>>

\* GET /tools, lines 197-228: `tools or [all three]` (line 201), then the
\* mapping
ApiListTools ==
    LET tools_to_detect ==
            IF apireq.tools = <<>> THEN AllTools
            ELSE IF apireq.tools[1] = <<>> THEN AllTools ELSE apireq.tools[1]
    IN  /\ apireq.route = "list_tools"
        /\ apires = <<>>
        /\ apires' = <<ToolsHanded(tools_to_detect)>>
        /\ UNCHANGED <<valreq, valres, execVars, stratreq, stratres, apireq, routeres>>

\* POST /detect, lines 257-285
ApiDetectTools ==
    /\ apireq.route = "detect_tools"
    /\ apires = <<>>
    /\ apires' = <<ToolsHanded(apireq.tools[1])>>
    /\ UNCHANGED <<valreq, valres, execVars, stratreq, stratres, apireq, routeres>>

NextA ==
    \/ ApiListTools
    \/ ApiDetectTools

SpecA == InitA /\ [][NextA]_vars

(***************************************************************************)
(* SpecR: the API routes GET /history and POST /clear-cache on the two     *)
(* services as a request may find them. No other call is in progress, so  *)
(* the detection service's lock is free.                                   *)
(***************************************************************************)
MaxOffset == 4

Offsets == 0..MaxOffset

\* The Python slice s[start:stop] for 0 <= start <= stop: a stop beyond the
\* list is clamped to it
Slice(s, start, stop) ==
    SubSeq(s, start + 1, IF stop > Len(s) THEN Len(s) ELSE stop)

\* GET /history, lines 573-574: get_execution_history(limit + offset), and of
\* that list the slice [offset:offset + limit]
history_page(records, limit, offset) ==
    Slice(get_execution_history(records, limit + offset), offset, offset + limit)

\* The cache, its keys and its timestamp after a detection, at time 0, that
\* returned `tools`
StoreOf(tools) ==
    [cache |-> [t \in ToolTypes |->
                   IF \E i \in DOMAIN tools : tools[i].tool_type = t
                   THEN <<tools[CHOOSE i \in DOMAIN tools : tools[i].tool_type = t]>>
                   ELSE <<>>],
     cache_keys |-> [i \in DOMAIN tools |-> tools[i].tool_type],
     cache_timestamp |-> IF tools = <<>> THEN <<>> ELSE <<0>>]

\* The detection cache as a request may find it: empty, or filled by a
\* detection of one or of two tools
Stores ==
    { StoreOf(<<>>),
      StoreOf(<<DetectedTool("gemini_cli", "available", 0)>>),
      StoreOf(<<DetectedTool("gemini_cli", "error", 0),
                DetectedTool("claude_code", "available", 0)>>) }

\* execution_service.clear_execution_history() (line 517). The route calls it
\* on the CommandExecutionService, and that class (lines 349-414) defines
\* initialize, execute_command, cancel_all_executions, get_execution_history
\* and validate_command only; the method is CommandExecutor's (line 343). The
\* attribute lookup raises AttributeError.
service_clear_execution_history == [exc |-> "AttributeError"]

\* What a route returned: the status code and the body (for a 500, the
\* `error` of the detail)
RouteResult(route, args, status_code, body) ==
    [route |-> route, args |-> args, status_code |-> status_code, body |-> body]

InitR ==
    /\ valreq = [command |-> <<>>, working_directory |-> <<>>, cwd |-> ServerCwd]
    /\ valres = <<>>
    /\ calls = <<>>
    /\ registry = <<>>
    /\ history \in Histories
    /\ initialized = TRUE
    /\ \E store \in Stores :
          /\ cache = store.cache
          /\ cache_keys = store.cache_keys
          /\ cache_timestamp = store.cache_timestamp
    /\ now = 0
    /\ cancels = <<>>
    /\ histres = <<>>
    /\ lock = <<>>
    /\ waiters = <<>>
    /\ dcalls = <<>>
    /\ inits = 1
    /\ FnInit

\* GET /history?limit=&offset= (lines 555-588)
RouteHistory(limit, offset) ==
    /\ routeres = <<>>
    /\ routeres' = <<RouteResult("history", [limit |-> limit, offset |-> offset], 200,
                                 history_page(history, limit, offset))>>
    /\ UNCHANGED <<valreq, valres, execVars, stratreq, stratres, apireq, apires>>

\* POST /clear-cache (lines 505-526): detection_service.clear_cache() takes
\* the free lock and drops the entries and the timestamp; then
\* clear_execution_history() on the execution service; an exception of
\* either is answered with HTTP 500 (lines 524-526).
RouteClearCache ==
    /\ routeres = <<>>
    /\ ~locked
    /\ cache' = ClearedStore.cache
    /\ cache_keys' = ClearedStore.cache_keys
    /\ cache_timestamp' = ClearedStore.cache_timestamp
    /\ IF service_clear_execution_history.exc # ""
       THEN /\ history' = history
            /\ routeres' = <<RouteResult("clear_cache", <<>>, 500,
                                         service_clear_execution_history.exc)>>
       ELSE /\ history' = <<>>
            /\ routeres' = <<RouteResult("clear_cache", <<>>, 200,
                                         "Caches cleared successfully")>>
    /\ UNCHANGED <<valreq, valres, calls, registry, initialized, now, cancels,
                   histres, detVars, inits, stratreq, stratres, apireq, apires>>

NextR ==
    \/ \E limit \in Limits, offset \in Offsets : RouteHistory(limit, offset)
    \/ RouteClearCache

SpecR == InitR /\ [][NextR]_vars

(***************************************************************************)
(* Properties of validate_command (SpecV)                                  *)
(***************************************************************************)
Validated == valres # <<>>
Verdict == valres[1]

\* The blocked commands a command contains as a substring, letter case ignored
MatchedFragments(command) ==
    {i \in DOMAIN BLOCKED_COMMANDS :
        Contains(Lower(command), Lower(BLOCKED_COMMANDS[i]))}

BlockedError(i) == <<"Blocked command detected: ">> \o BLOCKED_COMMANDS[i]

\* The whitespace-delimited tokens without quotes that end in a dot-extension
BareTokens(s) ==
    {SubSeq(s, g, TokenEnd(s, g)) :
        g \in {h \in 1..Len(s) : /\ h = 1 \/ IsSpace(s[h - 1])
                                 /\ TokenEnd(s, h) # 0}}

\* The candidate file paths of a command: quoted substrings and bare tokens
\* with a dot-extension
CandidatePaths(s) == Range(QuotedMatches(s, 1)) \cup BareTokens(s)

\* The resolved path lies in the resolved working directory or below it
Underneath(path, working_directory, cwd) ==
    LET r == ResolveComponents(path, cwd)
        w == ResolveComponents(working_directory, cwd)
    IN  Len(w) <= Len(r) /\ SubSeq(r, 1, Len(w)) = w

EscapingPaths(req) ==
    {f \in CandidatePaths(req.command) : ~Underneath(f, req.working_directory, req.cwd)}

\* C2: a command that contains a blocked command as a substring, letter case
\* ignored, is invalid whatever the working directory and the other rules, and
\* its errors hold exactly one "Blocked command detected" error per blocked
\* command it contains.
C2_DenyListRejects ==
    (Validated /\ MatchedFragments(valreq.command) # {}) =>
        /\ ~Verdict.valid
        /\ Verdict.errors # <<>>
        /\ \A i \in MatchedFragments(valreq.command) :
              Cardinality({k \in DOMAIN Verdict.errors :
                              Verdict.errors[k] = BlockedError(i)}) = 1
        /\ \A k \in DOMAIN Verdict.errors :
              Verdict.errors[k][1] = "Blocked command detected: " =>
                 \E i \in MatchedFragments(valreq.command) :
                    Verdict.errors[k] = BlockedError(i)

\* C2 witness: a command in upper case that contains a blocked command was
\* validated with a working directory, and another rule put an error beside
\* the blocked-command error.
C2_Witness ==
    /\ Validated
    /\ MatchedFragments(valreq.command) # {}
    /\ ~Contains(valreq.command, <<"c", "u", "r", "l">>)
    /\ Contains(valreq.command, <<"C", "U", "R", "L">>)
    /\ valreq.working_directory # <<>>
    /\ Len(Verdict.errors) > Cardinality(MatchedFragments(valreq.command))

\* C3 (as claimed): a command that is not blank, has at most 1000 characters,
\* contains no blocked command and, with a working directory, no candidate
\* path outside it, is valid.
C3_CleanCommandValid ==
    ( /\ Validated
      /\ ~is_blank(valreq.command)
      /\ Len(valreq.command) <= MAX_COMMAND_LENGTH
      /\ MatchedFragments(valreq.command) = {}
      /\ valreq.working_directory # <<>> => EscapingPaths(valreq) = {} )
    => Verdict.valid

\* C4 (as claimed): with a working directory, a command with a candidate path
\* that resolves outside the working directory is invalid.
C4_EscapingPathRejected ==
    ( /\ Validated
      /\ valreq.working_directory # <<>>
      /\ ~is_blank(valreq.command)
      /\ EscapingPaths(valreq) # {} )
    => ~Verdict.valid

\* C5: for an empty or whitespace-only command the verdict is invalid with the
\* single error "Command cannot be empty" and no warning: no other rule adds
\* to it.
C5_BlankCommand ==
    (Validated /\ \A i \in DOMAIN valreq.command : IsSpace(valreq.command[i])) =>
        Verdict = [valid |-> FALSE, errors |-> << <<"Command cannot be empty">> >>,
                   warnings |-> <<>>]

\* C5 witness: a whitespace-only command longer than the length limit was
\* validated with a working directory.
C5_Witness ==
    /\ Validated
    /\ Len(valreq.command) > MAX_COMMAND_LENGTH
    /\ \A i \in DOMAIN valreq.command : IsSpace(valreq.command[i])
    /\ valreq.working_directory # <<>>

(***************************************************************************)
(* Properties of command execution (Spec)                                  *)
(***************************************************************************)
Done(c) == calls[c].pc = "done"
Result(c) == calls[c].result[1]
RequestVerdict(c) == calls[c].validation_result[1]

\* C1 (as claimed): a call whose command the validator rejects returns
\* success=false, return_code=-1, the error message "Command validation
\* failed: " followed by the validator's errors, stderr equal to the joined
\* errors, and has not reached the spawn.
C1_ValidationFailureResult ==
    \A c \in 1..Len(calls) :
        (Done(c) /\ ~RequestVerdict(c).valid) =>
            /\ Result(c).success = FALSE
            /\ Result(c).return_code = -1
            /\ Result(c).error_message =
                  <<"Command validation failed: ">> \o Join(RequestVerdict(c).errors, "; ")
            /\ Result(c).stderr = Join(RequestVerdict(c).errors, "\n")
            /\ ~calls[c].reached_spawn

\* C6: warnings never block. The verdict is valid exactly when it has no
\* error; a request passes the validation step exactly when its verdict has no
\* error; a non-blank command within the length limit, without deny-listed
\* fragment and without working directory, passes whatever shell operators and
\* quotes it holds; and a request that passed, for a tool found available, goes
\* on to the spawn.
C6_WarningsNeverBlock ==
    \A c \in 1..Len(calls) :
        LET v == RequestVerdict(c)
            command == calls[c].command
        IN  /\ v.valid <=> (v.errors = <<>>)
            /\ calls[c].validated <=> (v.errors = <<>>)
            /\ ( /\ ~is_blank(command)
                 /\ Len(command) <= MAX_COMMAND_LENGTH
                 /\ MatchedFragments(command) = {}
                 /\ calls[c].working_directory = <<>> ) => calls[c].validated
            /\ (calls[c].validated /\ calls[c].tool_status = <<"available">>)
                  => calls[c].reached_spawn

\* C6 witness: a request whose verdict has the dangerous-pattern warning for
\* ";" and the unmatched-quotes warning, and no error, reached the spawn.
C6_Witness ==
    \E c \in 1..Len(calls) :
        /\ RequestVerdict(c).errors = <<>>
        /\ \E k \in DOMAIN RequestVerdict(c).warnings :
              RequestVerdict(c).warnings[k] = <<"Potentially dangerous pattern: ", ";">>
        /\ \E k \in DOMAIN RequestVerdict(c).warnings :
              RequestVerdict(c).warnings[k] =
                 <<"Unmatched quotes detected - may cause parsing issues">>
        /\ calls[c].reached_spawn

\* C7 (as claimed): a call that reached the spawn with a command whose process
\* runs past the timeout returns success=false, return_code=-1, an error
\* message that says it timed out, no stdout and no stderr, and leaves no
\* handle in the registry.
C7_TimeoutResult ==
    \A c \in 1..Len(calls) :
        (Done(c) /\ calls[c].reached_spawn /\ calls[c].runs = "hangs") =>
            /\ Result(c).success = FALSE
            /\ Result(c).return_code = -1
            /\ Result(c).error_message =
                  TimeoutResponse(DEFAULT_TIMEOUT_SECONDS).error_message
            /\ Result(c).stdout = <<>>
            /\ Result(c).stderr = <<>>
            /\ RegSize(registry) = 0

\* The long-running executions a cancel call finds in flight: those started
\* before it that no earlier cancel call found (time does not pass in Spec, so
\* none of them has timed out).
InFlight(k) ==
    cancels[k].long_running \ (IF k > 1 THEN cancels[k - 1].long_running ELSE {})

\* C8 (as claimed): a cancel call made with n long-running executions in
\* flight returns {cancelled: n, remaining: 0} and leaves the registry empty,
\* and each of these executions returns success=false.
C8_CancelAllCounts ==
    \A k \in 1..Len(cancels) :
        /\ cancels[k].result =
              [cancelled |-> Cardinality(InFlight(k)), remaining |-> 0]
        /\ \A c \in InFlight(k) : Done(c) => ~Result(c).success

\* The executions whose command was run and whose process exited by itself
Completed ==
    {c \in 1..Len(calls) : Done(c) /\ calls[c].reached_spawn /\ calls[c].runs = "exits"}

\* C10 (as claimed): the history holds one record per completed execution, the
\* most recent 100 of them at most.
C10_HistoryHoldsRecent ==
    Len(history) = IF Cardinality(Completed) < MAX_HISTORY_SIZE
                   THEN Cardinality(Completed) ELSE MAX_HISTORY_SIZE

(***************************************************************************)
(* Properties of get_execution_history (SpecH)                             *)
(***************************************************************************)
\* The last k records of a list, oldest first
MostRecent(records, k) == SubSeq(records, Len(records) - k + 1, Len(records))

Min(a, b) == IF a < b THEN a ELSE b

C20_NotAvailableResult ==
    \A c \in 1..Len(calls) :
        ( /\ Done(c)
          /\ calls[c].validated
          /\ calls[c].tool_status # <<>>
          /\ calls[c].tool_status # <<"available">> ) =>
            /\ Result(c).success = FALSE
            /\ Result(c).return_code = -1
            /\ Result(c).error_message = NotAvailableResponse(calls[c].tool).error_message
            /\ ~calls[c].reached_spawn

(***************************************************************************)
(* Properties of the detection cache (SpecD)                               *)
(***************************************************************************)
DDone(c) == dcalls[c].pc = "done"

\* A call of the detection service starts in this step; Starting is its
\* record after its first stretch.
Started == Len(dcalls') = Len(dcalls) + 1
Starting == dcalls'[Len(dcalls')]

\* Cache validity as the design states it: a timestamp is present, its age is
\* below the TTL and the store is not empty.
CacheValidAsSpecified ==
    /\ cache_timestamp # <<>>
    /\ now - cache_timestamp[1] < CACHE_TTL
    /\ \E t \in ToolTypes : cache[t] # <<>>

\* The entries of the store
StoredTools == {cache[t][1] : t \in {u \in ToolTypes : cache[u] # <<>>}}

IsGet(c) == dcalls[c].kind = "get_tool_status"
IsDetect(c) == dcalls[c].kind = "detect_tools"
IsForced(c) == IsDetect(c) /\ dcalls[c].force_refresh

\* C12 (as claimed): two get_tool_status calls for the same tool that start
\* less than 5 minutes apart, with no forced refresh, return identical data
\* and the second call does not probe.
C12_IdempotentWithinTTL ==
    \A c1, c2 \in 1..Len(dcalls) :
        ( /\ c1 < c2
          /\ IsGet(c1) /\ IsGet(c2)
          /\ dcalls[c1].tools = dcalls[c2].tools
          /\ DDone(c1) /\ DDone(c2)
          /\ dcalls[c2].start_time - dcalls[c1].start_time < CACHE_TTL
          /\ \A d \in 1..Len(dcalls) : ~IsForced(d) ) =>
            /\ dcalls[c2].result = dcalls[c1].result
            /\ dcalls[c2].probed = <<>>

\* C12 (amended): a get_tool_status call that finds the cache valid and the
\* tool's entry in it returns that entry as it is stored, calls no
\* strategy.detect() and changes neither the store nor the cache timestamp.
C12_CachedStatusServed ==
    [][ ( /\ Started
          /\ Starting.kind = "get_tool_status"
          /\ CacheValidAsSpecified
          /\ cache[Starting.tools[1]] # <<>> ) =>
            /\ Starting.pc = "done"
            /\ Starting.result = cache[Starting.tools[1]]
            /\ Starting.probed = <<>>
            /\ UNCHANGED <<cache, cache_keys, cache_timestamp>> ]_vars

\* C12 witness: a get_tool_status call was answered from the cache, minutes
\* after the entry it returned was detected.
C12_Witness ==
    \E c \in 1..Len(dcalls) :
        /\ IsGet(c) /\ DDone(c)
        /\ dcalls[c].probed = <<>>
        /\ dcalls[c].result # <<>>
        /\ dcalls[c].start_time > dcalls[c].result[1].last_detected

\* The tool types of a list of DetectedTool
ToolTypesOf(tools) == [i \in DOMAIN tools |-> tools[i].tool_type]

\* C13: a detect_tools call with force_refresh first clears the whole cache
\* (entries and timestamp), before any of its probes; it probes the requested
\* tools in request order and, when it returns, has probed every one of them,
\* whatever the cache held when it was called.
C13_ForcedRefreshProbesAll ==
    /\ [](\A c \in 1..Len(dcalls) :
            IsForced(c) =>
               /\ Len(dcalls[c].probed) <= Len(dcalls[c].tools)
               /\ dcalls[c].probed = SubSeq(dcalls[c].tools, 1, Len(dcalls[c].probed))
               /\ DDone(c) =>
                     /\ dcalls[c].probed = dcalls[c].tools
                     /\ ToolTypesOf(dcalls[c].result[1].tools) = dcalls[c].tools)
    /\ [][ (Started /\ Starting.kind = "detect_tools" /\ Starting.force_refresh) =>
              /\ cache' = EmptyCache
              /\ cache_keys' = <<>>
              /\ cache_timestamp' = <<>>
              /\ Starting.found = <<>> ]_vars

\* C13 witness: a forced call of two tools that started at the very time an
\* earlier forced call returned, on the valid cache that call left, has probed
\* both tools.
C13_Witness ==
    \E c1, c2 \in 1..Len(dcalls) :
        /\ c1 < c2
        /\ IsForced(c1) /\ IsForced(c2)
        /\ DDone(c1) /\ DDone(c2)
        /\ ~dcalls[c2].waited
        /\ dcalls[c2].start_time = dcalls[c1].result[1].detection_timestamp
        /\ Len(dcalls[c2].probed) > 1

\* C14: a detect_tools call without force_refresh that finds the cache valid
\* returns at once the entries of the store with the number of available ones,
\* the cache timestamp, no error and execution_time_ms = 0; it calls no
\* strategy.detect(), does not wait for the lock or take it, and leaves the
\* store and the cache timestamp as they are.
C14_CachedSnapshotReturned ==
    [][ ( /\ Started
          /\ Starting.kind = "detect_tools"
          /\ ~Starting.force_refresh
          /\ CacheValidAsSpecified ) =>
            /\ Starting.pc = "done"
            /\ Len(Starting.result[1].tools) = Cardinality(StoredTools)
            /\ Range(Starting.result[1].tools) = StoredTools
            /\ Starting.result[1].total_detected =
                  Cardinality({tool \in StoredTools : tool.status = "available"})
            /\ Starting.result[1].detection_timestamp = cache_timestamp[1]
            /\ Starting.result[1].errors = <<>>
            /\ Starting.result[1].execution_time_ms = 0
            /\ Starting.probed = <<>>
            /\ ~Starting.waited
            /\ UNCHANGED <<cache, cache_keys, cache_timestamp, lock, waiters>> ]_vars

\* C14 witness: a call without force_refresh that asked for two tools was
\* answered from a valid cache that held one entry.
C14_Witness ==
    \E c \in 1..Len(dcalls) :
        /\ IsDetect(c) /\ ~dcalls[c].force_refresh /\ DDone(c)
        /\ dcalls[c].probed = <<>>
        /\ Len(dcalls[c].tools) > Len(dcalls[c].result[1].tools)
        /\ dcalls[c].result[1].execution_time_ms = 0

\* The call is in its detection pass: it has entered the loop of lines 71-91
\* and not yet returned
InPass(c) == IsDetect(c) /\ dcalls[c].probed # <<>> /\ ~DDone(c)

C16_MutationsUnderLock ==
    [][ ( /\ <<cache, cache_keys, cache_timestamp>>' # <<cache, cache_keys, cache_timestamp>>
          /\ lock # <<>> ) =>
            dcalls'[lock[1]] # dcalls[lock[1]] ]_vars

\* C17: clear_cache drops the entries and the timestamp in one step. A call
\* that finds the lock held waits and changes nothing; the step in which a
\* call completes is made with no detection pass in progress and the lock
\* held by no other call, and leaves the store empty, the timestamp absent and
\* the cache invalid.
C17_ClearAtomic ==
    [][ \A c \in 1..Len(dcalls') :
          dcalls'[c].kind = "clear_cache" =>
            /\ ( /\ dcalls'[c].pc = "done"
                 /\ c > Len(dcalls) \/ dcalls[c].pc # "done" ) =>
                   /\ lock = <<>> \/ lock = <<c>>
                   /\ \A d \in 1..Len(dcalls) : ~InPass(d)
                   /\ cache' = EmptyCache
                   /\ cache_keys' = <<>>
                   /\ cache_timestamp' = <<>>
                   /\ ~CacheValidAsSpecified'
            /\ (c > Len(dcalls) /\ dcalls'[c].pc # "done") =>
                   /\ lock # <<>>
                   /\ dcalls'[c].pc = "acquiring"
                   /\ UNCHANGED <<cache, cache_keys, cache_timestamp>> ]_vars

\* C17 witness: a clear_cache call that waited for a detection pass has
\* completed, after the pass stored its tools.
C17_Witness ==
    \E c, d \in 1..Len(dcalls) :
        /\ dcalls[c].kind = "clear_cache" /\ dcalls[c].waited /\ DDone(c)
        /\ IsDetect(d) /\ DDone(d) /\ dcalls[d].found # <<>>
        /\ cache = EmptyCache /\ cache_timestamp = <<>>

\* What get_tool_status asks before it answers from the cache (line 144)
Servable(t) == is_cache_valid /\ cache[t] # <<>>

\* C18: the cache is valid exactly when a timestamp is present, its age is
\* below the TTL and the store is not empty; and validity is one answer for
\* the whole store: of the stored entries either every one is servable from
\* the cache or none is, whatever the age of the entry itself.
C18_WholeCacheValidity ==
    /\ is_cache_valid <=> CacheValidAsSpecified
    /\ \A t, u \in ToolTypes :
          (cache[t] # <<>> /\ cache[u] # <<>>) => (Servable(t) <=> Servable(u))
    /\ \A t \in ToolTypes :
          cache[t] # <<>> => (Servable(t) <=> CacheValidAsSpecified)

\* C18 witness: get_tool_status returned from the cache an entry that was
\* detected a whole TTL before the call (the timestamp of the cache was
\* younger).
C18_Witness ==
    \E c \in 1..Len(dcalls) :
        /\ IsGet(c) /\ DDone(c)
        /\ dcalls[c].probed = <<>>
        /\ dcalls[c].result # <<>>
        /\ dcalls[c].start_time - dcalls[c].result[1].last_detected >= CACHE_TTL

\* C19 (as claimed): a detect_tools call that probed returns one entry per
\* requested tool, in request order, and for each tool whose detection failed
\* (an entry of status "error") a message in the errors list.
C19_FailureReported ==
    \A c \in 1..Len(dcalls) :
        (IsDetect(c) /\ DDone(c) /\ dcalls[c].probed # <<>>) =>
            LET result == dcalls[c].result[1]
            IN  /\ ToolTypesOf(result.tools) = dcalls[c].tools
                /\ Len(result.errors) =
                      Cardinality({i \in DOMAIN result.tools :
                                      result.tools[i].status = "error"})

(***************************************************************************)
(* Properties of command execution: results, history, initialization       *)
(***************************************************************************)
\* C22 (as claimed): an execution whose process exited by itself before the
\* timeout returns that process's return code (an exit code, not -1) with
\* success = (return code = 0), and the history holds a record of it with the
\* request's tool and command and the result's success and return code.
C22_NormalCompletionRecorded ==
    \A c \in Completed :
        /\ Result(c).return_code >= 0
        /\ Result(c).success = (Result(c).return_code = 0)
        /\ \E k \in DOMAIN history :
              history[k] = HistoryRecord(calls[c].tool, calls[c].command,
                                         Result(c).success, Result(c).return_code)

\* The fields of an ExecuteResponse
ResponseFields == DOMAIN Response(FALSE, <<>>, <<>>, -1, <<>>)

\* The execute call met one of the failure modes: the validator rejected the
\* command, the tool was not found available, or the spawn failed
Failed(c) ==
    \/ ~RequestVerdict(c).valid
    \/ (calls[c].tool_status # <<>> /\ calls[c].tool_status # <<"available">>)
    \/ (calls[c].reached_spawn /\ create_subprocess_exec(calls[c]).exc # "")

\* C23: execute never raises. A call that is over has exactly one result, an
\* ExecuteResponse; when the call met a failure mode (validation failure,
\* unavailable tool, spawn failure) that response has success=false and
\* return_code=-1. A call that is not over has no result and is suspended in
\* the detection of its tool.
C23_ExecuteAlwaysReturns ==
    \A c \in 1..Len(calls) :
        IF Done(c)
        THEN /\ Len(calls[c].result) = 1
             /\ DOMAIN Result(c) = ResponseFields
             /\ Failed(c) => (Result(c).success = FALSE /\ Result(c).return_code = -1)
        ELSE calls[c].result = <<>> /\ calls[c].pc = "probing"

\* C23 witness: one call ended on a validation failure, another on a spawn
\* failure, and each has its response with success=false.
C23_Witness ==
    \E c, d \in 1..Len(calls) :
        /\ Done(c) /\ ~RequestVerdict(c).valid
        /\ Done(d) /\ calls[d].reached_spawn
        /\ Result(c).success = FALSE
        /\ Result(d).success = FALSE

\* C24: initialization is one-time. A step that is an initialize() call on a
\* service not yet initialized empties the history and marks the service
\* initialized; on an initialized service it changes neither the flag nor the
\* history; in both cases the registry and the detection cache stay as they
\* are. (SpecH starts from histories with records in them.)
C24_InitializeOnce ==
    [][ inits' # inits =>
          /\ initialized'
          /\ history' = IF initialized THEN history ELSE <<>>
          /\ registry' = registry
          /\ cache' = cache
          /\ cache_timestamp' = cache_timestamp ]_vars

\* C24 witness: two initialize() calls were made on an initialized service
\* whose history holds records, and the records are still there.
C24_Witness ==
    /\ inits = MaxInits
    /\ initialized
    /\ history # <<>>

\* C25 (as claimed): executions are independent. When a long-running
\* execution has ended (by its timeout), an execution whose process exits by
\* itself has, once it is over, the result of its own process: an exit code
\* as return code, with success = (return code = 0).
C25_OthersUnaffected ==
    \A c \in LongRunning, d \in Completed :
        (Done(c) /\ c # d) =>
            /\ Result(d).return_code >= 0
            /\ Result(d).success = (Result(d).return_code = 0)
            /\ RegSize(registry) = 0

(***************************************************************************)
(* Properties of the detection strategies (SpecS)                          *)
(***************************************************************************)
Detected == stratres # <<>> /\ stratres[1].call = "detect"
VersionAsked == stratres # <<>> /\ stratres[1].call = "get_version"

\* The fields of a DetectedTool
ToolFields == DOMAIN DetectedToolFull("", "", <<>>, <<>>, <<>>)

\* C26: detect() never raises. Whatever the probes meet (a command that is
\* not there, a spawn that fails, a non-zero exit, docker missing), detect()
\* returns a DetectedTool whose status is available, missing or error; the
\* status is error exactly when an unexpected exception was raised (here by
\* shutil.which), and then the metadata holds the text of that exception.
C26_DetectNeverRaises ==
    Detected =>
        /\ DOMAIN stratres[1].tool = ToolFields
        /\ stratres[1].tool.tool_type = stratreq.tool
        /\ stratres[1].tool.status \in {"available", "missing", "error"}
        /\ (stratres[1].tool.status = "error") <=> (stratreq.which_exc # "")
        /\ stratreq.which_exc # "" =>
              stratres[1].tool.metadata = [error |-> stratreq.which_exc]

\* C26 witness: shutil.which raised although the command is in PATH and
\* answers --version, and detect() returned a tool with status error.
C26_Witness ==
    /\ Detected
    /\ stratreq.which_exc # ""
    /\ Executable[stratreq.tool] \in stratreq.on_path
    /\ Yields(stratreq.runs["--version"])
    /\ stratres[1].tool.status = "error"

\* The PATH step succeeds: the executable is in PATH and version extraction
\* gives a version
PathSucceeds(env) ==
    Executable[env.tool] \in env.on_path /\ get_version(env.tool, env.runs).version # <<>>

\* The commands whose `--help` exits with code 0 or 1 (within the 5
\* seconds: no command of the model hangs), in the order they are probed
HelpAnswers(env) ==
    {i \in DOMAIN AliasCommands[env.tool] :
        AliasCommands[env.tool][i] \in env.on_path /\ env.help \in {0, 1}}

\* A container or an image of the tool is there
ContainerThere(env) ==
    \E i \in DOMAIN ContainerNames[env.tool] :
        \/ check_docker_container(env, ContainerNames[env.tool][i])
        \/ check_docker_image(env, ContainerNames[env.tool][i])

IsHelp(probe) == probe[2] = "--help"
IsDocker(probe) == probe[1] = "docker"

\* C27 (as claimed): the probes run in the order PATH step, alias probe,
\* container probe and stop at the first success. When the PATH step
\* succeeds the tool is available with type executable and neither --help
\* nor docker is run; docker is run only when the PATH step did not succeed
\* and no --help exited with 0 or 1, and never before a --help; when none
\* of the three steps succeeds the status is missing.
C27_ProbeOrder ==
    (Detected /\ stratreq.which_exc = "") =>
        LET env == stratreq
            ran == stratres[1].ran
        IN  /\ PathSucceeds(env) =>
                  /\ stratres[1].tool.status = "available"
                  /\ stratres[1].tool.metadata.type = "executable"
                  /\ \A i \in DOMAIN ran : ~IsHelp(ran[i]) /\ ~IsDocker(ran[i])
            /\ (\E i \in DOMAIN ran : IsDocker(ran[i])) =>
                  ~PathSucceeds(env) /\ HelpAnswers(env) = {}
            /\ \A i, j \in DOMAIN ran : (IsDocker(ran[i]) /\ IsHelp(ran[j])) => j < i
            /\ (~PathSucceeds(env) /\ HelpAnswers(env) = {} /\ ~ContainerThere(env)) =>
                  stratres[1].tool.status = "missing"

\* C28 (as claimed): when the PATH step does not succeed and `<name> --help`
\* exits with code 0 or 1, detect() returns the tool as available with type
\* alias, under the first such name, with the version that version
\* extraction through that name yields.
C28_AliasAvailable ==
    (Detected /\ stratreq.which_exc = "" /\ ~PathSucceeds(stratreq)
        /\ HelpAnswers(stratreq) # {}) =>
        LET cmd == AliasCommands[stratreq.tool][MinOf(HelpAnswers(stratreq))]
        IN  /\ stratres[1].tool.status = "available"
            /\ stratres[1].tool.metadata = [command |-> cmd, type |-> "alias"]
            /\ stratres[1].tool.version = get_version(stratreq.tool, stratreq.runs).version

\* C29 (as claimed): for every tool, when --version exits non-zero,
\* get_version runs the flags -V, version, info in that order up to the
\* first that exits 0 with an output that holds a version, and returns that
\* version; it returns no version only when none of these flags gives one.
C29_VersionRetries ==
    VersionAsked =>
        LET runs == stratreq.runs
            good == {i \in DOMAIN AlternateFlags : Yields(runs[AlternateFlags[i]])}
        IN  (runs["--version"].exc = "" /\ runs["--version"].returncode # 0) =>
                IF good = {}
                THEN /\ stratres[1].version = <<>>
                     /\ stratres[1].ran = <<"--version">> \o AlternateFlags
                ELSE /\ stratres[1].version =
                           extract_version(Strip(runs[AlternateFlags[MinOf(good)]].stdout))
                     /\ stratres[1].ran =
                           <<"--version">> \o SubSeq(AlternateFlags, 1, MinOf(good))

(***************************************************************************)
(* Properties of the batch routes (SpecA)                                  *)
(***************************************************************************)
Handed == apires # <<>> /\ apireq.tools # <<>>
Supplied == apireq.tools[1]

IsToolType(tool_str) == tool_str \in ToolTypes

\* The recognised identifiers among the supplied strings, in the order and
\* as many times as they were supplied
Recognised == SelectSeq(Supplied, IsToolType)

\* C30 (as claimed): for every list of supplied strings, the tools handed to
\* detection are exactly the recognised identifiers among them.
C30_ExactlyRecognised ==
    Handed => apires[1].tools_to_detect = Recognised

\* C30 (amended): unknown strings are logged and left out, and the request
\* goes on to detection. The tools handed to detection are the recognised
\* identifiers among the supplied strings, in order and with repetitions,
\* when there is at least one; when there is none (an empty list, or unknown
\* strings only) all three tools are handed to detection.
C30_RecognisedOrAll ==
    Handed =>
        /\ apires[1].tools_to_detect =
              IF Recognised = <<>> THEN AllTools ELSE Recognised
        /\ Len(apires[1].unknown) = Len(Supplied) - Len(Recognised)
        /\ \A i \in DOMAIN apires[1].unknown : ~IsToolType(apires[1].unknown[i])

\* C30 witness: a request that names an unknown tool, gemini_cli, and
\* claude_code in other letter case was handed on with gemini_cli alone.
C30_Witness ==
    /\ Handed
    /\ Supplied = <<"codex", "gemini_cli", "Claude_Code">>
    /\ apires[1].tools_to_detect = <<"gemini_cli">>

(***************************************************************************)
(* Properties of command execution: the order of the steps (Spec)          *)
(***************************************************************************)
\* C31: execution is fail-fast and ordered. In the step in which a call
\* ends: if the validator rejected its command, the call ends in the step
\* that started it, has asked for no tool status and reached no spawn, and
\* the step leaves the detection cache, its timestamp and the registry as
\* they were and adds no history record; if the tool was not found available,
\* the command had been accepted, the call reached no spawn, and the step
\* leaves the registry as it was and adds no history record; and a call that
\* reached the spawn had its command accepted and its tool found available.
C31_FailFast ==
    [][ \A c \in 1..Len(calls') :
          LET was == IF c <= Len(calls) THEN calls[c].pc ELSE "none"
              call == calls'[c]
          IN  (was # "done" /\ call.pc = "done") =>
                /\ ~call.validation_result[1].valid =>
                      /\ was = "none"
                      /\ call.tool_status = <<>>
                      /\ ~call.reached_spawn
                      /\ cache' = cache
                      /\ cache_timestamp' = cache_timestamp
                      /\ cache_keys' = cache_keys
                      /\ registry' = registry
                      /\ Len(history') <= Len(history)
                /\ (call.tool_status # <<>> /\ call.tool_status # <<"available">>) =>
                      /\ call.validation_result[1].valid
                      /\ ~call.reached_spawn
                      /\ registry' = registry
                      /\ Len(history') <= Len(history)
                /\ call.reached_spawn =>
                      /\ call.validation_result[1].valid
                      /\ call.tool_status = <<"available">> ]_vars

\* C31 witness: one call ended on a rejected command while the cache held an
\* entry, and another ended because its tool was probed and found missing.
C31_Witness ==
    \E c, d \in 1..Len(calls) :
        /\ Done(c) /\ ~RequestVerdict(c).valid
        /\ Done(d) /\ RequestVerdict(d).valid /\ calls[d].tool_status = <<"missing">>
        /\ d < c
        /\ \E t \in ToolTypes : cache[t] # <<>>

(***************************************************************************)
(* Properties of validate_command: the dangerous-pattern warnings (SpecV)  *)
(***************************************************************************)
\* The shell operator the i-th pattern is listed for, as text: the pattern
\* itself without its escapes; two bars for r'||'
OperatorText(i) ==
    IF BLOCKED_PATTERNS[i].kind = "empty_alt" THEN <<"|", "|">> ELSE BLOCKED_PATTERNS[i].a

\* The warning validate_command gives for the i-th pattern
DangerWarning(i) == <<"Potentially dangerous pattern: ", BLOCKED_PATTERNS[i].text>>

\* C32 (as claimed): a non-blank command gets the dangerous-pattern warning
\* of a pattern only when that pattern's operator occurs in the command; a
\* command in which none of the operators occurs gets no such warning.
C32_WarningOnlyWhenPresent ==
    (Validated /\ ~is_blank(valreq.command)) =>
        \A i \in DOMAIN BLOCKED_PATTERNS :
            (\E k \in DOMAIN Verdict.warnings : Verdict.warnings[k] = DangerWarning(i))
                => Contains(valreq.command, OperatorText(i))

(***************************************************************************)
(* Properties of the API routes GET /history and POST /clear-cache (SpecR) *)
(***************************************************************************)
HistoryAsked == routeres # <<>> /\ routeres[1].route = "history"
ClearAsked == routeres # <<>> /\ routeres[1].route = "clear_cache"

\* The positions 1..n of a history of n records, as a list
Positions(n) == [i \in 1..n |-> i]

\* The positions in a history of n records of the records GET /history
\* returns for the limit and the offset, in the order it returns them
PagePositions(n, limit, offset) == history_page(Positions(n), limit, offset)

\* The offsets 0, L, 2L, ... of the pages of a history of n records
PageOffsets(n, limit) == {j * limit : j \in 0..n}

C34_ClearsBoth ==
    ClearAsked =>
        /\ routeres[1].status_code = 200
        /\ routeres[1].body = "Caches cleared successfully"
        /\ cache = EmptyCache
        /\ cache_timestamp = <<>>
        /\ history = <<>>

(***************************************************************************)
(* Properties of the detection cache, continued (SpecD)                    *)
(***************************************************************************)
\* The call was answered from the cache: it is over and called no
\* strategy.detect()
FromCache(c) ==
    /\ IsGet(c) \/ IsDetect(c)
    /\ DDone(c)
    /\ dcalls[c].probed = <<>>

\* The DetectedTools a call returned
ReturnedTools(c) == IF IsGet(c) THEN dcalls[c].result ELSE dcalls[c].result[1].tools

\* C35 (as claimed): no stale entry is served. Every DetectedTool that
\* get_tool_status or a detect_tools without force_refresh returned from the
\* cache was detected less than the TTL before the call.
C35_NoStaleServed ==
    \A c \in 1..Len(dcalls) :
        (FromCache(c) /\ ~IsForced(c)) =>
            \A i \in DOMAIN ReturnedTools(c) :
                dcalls[c].start_time - ReturnedTools(c)[i].last_detected < CACHE_TTL

\* C36 (as claimed): every detect_tools call that is over returns a tools
\* list with an entry for each requested tool and none for a tool that was
\* not requested, and total_detected is the number of returned entries of
\* status "available".
C36_RequestedToolsReturned ==
    \A c \in 1..Len(dcalls) :
        (IsDetect(c) /\ DDone(c)) =>
            /\ Range(ToolTypesOf(ReturnedTools(c))) = Range(dcalls[c].tools)
            /\ dcalls[c].result[1].total_detected =
                  Cardinality({i \in DOMAIN ReturnedTools(c) :
                                  ReturnedTools(c)[i].status = "available"})

\* C37 (as claimed): detection is single-flight. A detect_tools call without
\* force_refresh that waited for the lock while a detection pass of another
\* such call held it, and is over, called strategy.detect() for none of the
\* tools that pass had stored: it returned the stored results.
C37_SingleFlight ==
    \A c, d \in 1..Len(dcalls) :
        ( /\ c < d
          /\ IsDetect(c) /\ ~IsForced(c) /\ dcalls[c].probed # <<>>
          /\ IsDetect(d) /\ ~IsForced(d) /\ dcalls[d].waited /\ DDone(d) ) =>
            Range(dcalls[d].probed) \cap Range(dcalls[c].tools) = {}

\* C38 (as claimed): the cache never regresses to an older observation. In
\* the step in which a get_tool_status call that probed its tool ends: if a
\* call that started later has already ended and had probed the same tool
\* (and so stored its result first), the entry of the tool stays as it is;
\* and if a clear_cache call that started later has already ended, no entry
\* is stored for the tool.
C38_NoRegression ==
    [][ \A c \in 1..Len(dcalls) :
          (IsGet(c) /\ ~DDone(c) /\ dcalls'[c].pc = "done") =>
              \A d \in 1..Len(dcalls) :
                  (d > c /\ DDone(d)) =>
                      /\ dcalls[c].tools[1] \in Range(dcalls[d].probed)
                            => cache'[dcalls[c].tools[1]] = cache[dcalls[c].tools[1]]
                      /\ dcalls[d].kind = "clear_cache"
                            => cache'[dcalls[c].tools[1]] = <<>> ]_vars

(***************************************************************************)
(* Properties of command execution: termination (SpecL)                    *)
(***************************************************************************)
\* C39 (as claimed): every execute call that was started eventually is over,
\* with its ExecuteResponse.
C39_EveryCallReturns ==
    \A c \in 1..MaxCalls :
        (c <= Len(calls)) ~> (c <= Len(calls) /\ calls[c].pc = "done"
                                              /\ Len(calls[c].result) = 1)

(***************************************************************************)
(* Properties of the execution entry points (SpecE)                        *)
(***************************************************************************)
\* C40 (as claimed): through every execution entry point, a call reaches the
\* spawn only with a command the validator was asked about and accepted, and
\* that command holds no deny-listed fragment.
C40_SpawnOnlyValidated ==
    \A c \in 1..Len(calls) :
        calls[c].reached_spawn =>
            /\ calls[c].validation_result # <<>>
            /\ calls[c].validation_result[1].valid
            /\ MatchedFragments(calls[c].command) = {}

====
